---- MODULE Spec2Model ----
(***************************************************************************)
(* Model of the virtual file system of PrivEx                              *)
(*   src/lib/services/filesystem.ts      FileSystemService                  *)
(*   src/lib/services/openai-storage.ts  PathUtils, FS_CONFIG, FS_ERRORS    *)
(*                                                                         *)
(* Representation.                                                         *)
(*  - A path string is a sequence of tokens.  The token "/" is the         *)
(*    separator, "\\" a backslash, every other token is one whole path     *)
(*    segment (two segment tokens are never adjacent).  The empty string   *)
(*    is <<>>.                                                             *)
(*  - A name (FileNode.name, an entry of FileNode.children) is a TLA+      *)
(*    string; "" is the empty name of the root.                            *)
(*  - File content is a TLA+ string; .length is Len.                       *)
(*  - A FileNode is a record with the fields name, type, path, parent,     *)
(*    size, and children (directories) or contentId (files); an absent     *)
(*    field is JavaScript's undefined.  parent = <<>> models the absent    *)
(*    parent of the root (both are falsy in `if (node.parent)`).           *)
(*    extension is present on files only.  permissions is written but      *)
(*    never read and is left out.                                          *)
(*  - Date.now() is the field now of the state in open form: the clock     *)
(*    advances by one with every call made and stands still during one.    *)
(*  - JavaScript objects are references.  While an operation runs, the     *)
(*    state is kept in open form: index maps a path to a reference and     *)
(*    heap maps a reference to the object, so that a node captured in a    *)
(*    local variable (node, sourceNode, children) stays the same object    *)
(*    when this.state.nodes[path] is reassigned or deleted.                *)
(***************************************************************************)
EXTENDS Integers, Sequences, FiniteSets, TLC

(***************************************************************************)
(* Scaled program constants (FS_CONFIG).  The source values are 10 MB,     *)
(* 260 and 255; the model keeps their order and scales them down.          *)
(***************************************************************************)
MAX_TOTAL_SIZE == 3
MAX_PATH_LENGTH == 24
MAX_FILENAME_LENGTH == 12

\* number of content blobs the key-value store may hold in the model
MaxBlobs == 3
\* number of calls in one run of the model
MaxCalls == 2

(***************************************************************************)
(* FS_ERRORS                                                               *)
(***************************************************************************)
OK == "ok"
ENOENT == "ENOENT"
EEXIST == "EEXIST"
ENOTDIR == "ENOTDIR"
EISDIR == "EISDIR"
ENOTEMPTY == "ENOTEMPTY"
ENOSPC == "ENOSPC"
EINVAL == "EINVAL"
\* the call never returns (unbounded recursion of createDirectory)
DIVERGES == "DIVERGES"

\* `const name = value; rest`: rest reads the value by name
Const(value, rest(_)) == rest(value)

(***************************************************************************)
(* PathUtils                                                               *)
(***************************************************************************)
SEPARATOR == "/"
ROOT == <<"/">>

\* string length in characters of a token sequence
RECURSIVE StrLen(_)
StrLen(s) == IF s = <<>> THEN 0 ELSE Len(Head(s)) + StrLen(Tail(s))

\* a name as a path string
ToPath(name) == IF name = "" THEN <<>> ELSE <<name>>

startsWith(path, tok) == Len(path) > 0 /\ path[1] = tok

\* index of the last separator, 0 when there is none (lastIndexOf + 1)
lastIndexOf(path) ==
  LET S == {i \in 1..Len(path) : path[i] = SEPARATOR}
  IN IF S = {} THEN 0 ELSE CHOOSE i \in S : \A j \in S : j <= i

\* normalized.join('/')
RECURSIVE joinSegments(_)
joinSegments(segs) ==
  IF segs = <<>> THEN <<>>
  ELSE IF Len(segs) = 1 THEN segs
  ELSE <<Head(segs), SEPARATOR>> \o joinSegments(Tail(segs))

\* the loop stepping over the segment that follows a popped one: after a
\* pop the next segment is pushed as it is
RECURSIVE normalizeLoop_skipsAfterPop(_, _, _)
normalizeLoop_skipsAfterPop(segments, abs, normalized) ==
  IF segments = <<>> THEN normalized
  ELSE LET segment == Head(segments)
           pops == segment = ".." /\ Len(normalized) > 0
                   /\ normalized[Len(normalized)] # ".."
       IN IF pops
          THEN IF Len(segments) > 1
               THEN normalizeLoop_skipsAfterPop(
                      Tail(Tail(segments)), abs,
                      Append(SubSeq(normalized, 1, Len(normalized) - 1), segments[2]))
               ELSE SubSeq(normalized, 1, Len(normalized) - 1)
          ELSE normalizeLoop_skipsAfterPop(
                 Tail(segments), abs,
                 IF segment = ".." /\ abs THEN normalized ELSE Append(normalized, segment))

\* the loop without the test `!path.startsWith(SEPARATOR)`: a '..' with
\* nothing to pop is kept in absolute paths too
RECURSIVE normalizeLoop_keepsDotDot(_, _, _)
normalizeLoop_keepsDotDot(segments, abs, normalized) ==
  IF segments = <<>> THEN normalized
  ELSE LET segment == Head(segments)
           next == IF segment = ".." /\ Len(normalized) > 0
                      /\ normalized[Len(normalized)] # ".."
                   THEN SubSeq(normalized, 1, Len(normalized) - 1)
                   ELSE Append(normalized, segment)
       IN normalizeLoop_keepsDotDot(Tail(segments), abs, next)

\* the for loop of normalize over the filtered segments
RECURSIVE normalizeLoop(_, _, _)
normalizeLoop(segments, abs, normalized) ==
  IF segments = <<>> THEN normalized
  ELSE LET segment == Head(segments)
           next == IF segment = ".."
                   THEN IF Len(normalized) > 0 /\ normalized[Len(normalized)] # ".."
                        THEN SubSeq(normalized, 1, Len(normalized) - 1)
                        ELSE IF ~abs THEN Append(normalized, segment)
                        ELSE normalized
                   ELSE Append(normalized, segment)
       IN normalizeLoop(Tail(segments), abs, next)

normalize(path) ==
  IF path = <<>> THEN ROOT
  ELSE LET p == [i \in 1..Len(path) |-> IF path[i] = "\\" THEN SEPARATOR ELSE path[i]]
           segments == SelectSeq(p, LAMBDA t : t # SEPARATOR /\ t # ".")
           abs == startsWith(p, SEPARATOR)
           normalized == normalizeLoop(segments, abs, <<>>)
           result == (IF abs THEN <<SEPARATOR>> ELSE <<>>) \o joinSegments(normalized)
       IN IF result # <<>> THEN result ELSE IF abs THEN ROOT ELSE <<".">>

\* join(a, b): paths.join('/') then normalize
join(a, b) == normalize(a \o <<SEPARATOR>> \o b)

dirname(path) ==
  Const(normalize(path), LAMBDA normalized :
    LET lastSeparator == lastIndexOf(normalized)
    IN IF normalized = ROOT THEN ROOT
       ELSE IF lastSeparator = 1 THEN ROOT
       ELSE IF lastSeparator = 0 THEN <<".">>
       ELSE SubSeq(normalized, 1, lastSeparator - 1))

\* basename(path) without the optional suffix argument; the result is a name
basename(path) ==
  Const(normalize(path), LAMBDA normalized :
    LET lastSeparator == lastIndexOf(normalized)
        rest == SubSeq(normalized, lastSeparator + 1, Len(normalized))
    IN IF rest = <<>> THEN "" ELSE rest[1])

\* the text of a name from its last dot on, and whether that dot is the
\* first character, for the names of the model
FromLastDot ==
  [n \in {"a.txt", "welcome.txt", ".env", "b.md"} |->
     IF n = ".env" THEN ".env" ELSE IF n = "b.md" THEN ".md" ELSE ".txt"]
lastDotIsFirst(name) == name \in {".env"}

extname(path) ==
  Const(basename(path), LAMBDA name :
    IF name \notin DOMAIN FromLastDot \/ lastDotIsFirst(name) THEN ""
    ELSE FromLastDot[name])

isAbsolute(path) == startsWith(path, SEPARATOR)

resolve(from, to) ==
  IF isAbsolute(to) THEN normalize(to) ELSE normalize(join(from, to))

\* the fields of PathInfo that the file system reads
parseInfo(path) ==
  Const(normalize(path), LAMBDA normalized :
    [normalized |-> normalized,
     isAbsolute |-> isAbsolute(path),
     parent |-> dirname(normalized),
     basename |-> basename(normalized),
     extension |-> extname(normalized)])

(***************************************************************************)
(* The engine's state during one operation (open form):                    *)
(*   index     this.state.nodes: path -> reference                         *)
(*   heap      reference -> FileNode object                                *)
(*   cwd       this.state.currentWorkingDirectory                          *)
(*   blobs     the key-value store's FileContent records, id -> content    *)
(*   persisted the FileSystemState record last written by saveState        *)
(* An operation yields [fs, err, out]: the state it leaves, OK or the code *)
(* of the FileSystemError it throws, and its return value.                 *)
(***************************************************************************)
Result(fs, err, out) == [fs |-> fs, err |-> err, out |-> out]
Throw(fs, err) == Result(fs, err, "")
Return(fs) == Result(fs, OK, "")
\* `await call; rest`: the rest runs on the state the call leaves, with the
\* value it returns, unless the call throws
Then(r, rest(_, _)) == IF r.err # OK THEN r ELSE rest(r.fs, r.out)

\* this.state.nodes as path -> FileNode (one object per path)
Close(fs) == [p \in DOMAIN fs.index |-> fs.heap[fs.index[p]]]

\* the object this.state.nodes[path]; callers test Has first
Has(fs, path) == path \in DOMAIN fs.index
Obj(fs, path) == fs.heap[fs.index[path]]

\* a reference no object has yet
NewRef(fs) ==
  LET fresh == {r \in DOMAIN fs.heap : startsWith(r, "#")}
  IN [i \in 1..(Cardinality(fresh) + 1) |-> "#"]

\* `file-${Date.now()}-${Math.random()...}`: an id no blob and no node has
NewContentId(fs) ==
  LET used == DOMAIN fs.blobs \cup
              {fs.heap[r].contentId : r \in {q \in DOMAIN fs.heap : "contentId" \in DOMAIN fs.heap[q]}}
  IN CHOOSE n \in 1..(Cardinality(used) + 1) : n \notin used

\* this.state.nodes[path] = object
SetNode(fs, path, object) ==
  LET ref == NewRef(fs)
  IN [fs EXCEPT !.heap = [r \in DOMAIN fs.heap \cup {ref} |-> IF r = ref THEN object ELSE fs.heap[r]],
                !.index = [p \in DOMAIN fs.index \cup {path} |-> IF p = path THEN ref ELSE fs.index[p]]]

\* delete this.state.nodes[path]
RemoveNode(fs, path) ==
  [fs EXCEPT !.index = [p \in DOMAIN fs.index \ {path} |-> fs.index[p]]]

\* storage.setItem / storage.removeItem on a content key
SetBlob(fs, id, content) ==
  [fs EXCEPT !.blobs = [i \in DOMAIN fs.blobs \cup {id} |-> IF i = id THEN content ELSE fs.blobs[i]]]
RemoveBlob(fs, id) ==
  [fs EXCEPT !.blobs = [i \in DOMAIN fs.blobs \ {id} |-> fs.blobs[i]]]

saveState(fs) ==
  [fs EXCEPT !.persisted = [nodes |-> Close(fs), currentWorkingDirectory |-> fs.cwd]]

(***************************************************************************)
(* Array.prototype.sort() without a comparator orders strings by code      *)
(* unit; NameOrder lists the names of the model in that order.             *)
(***************************************************************************)
NameOrder ==
  <<"", ".env", "a.txt", "b.md", "dark", "home", "list", "notes", "set", "tmp", "true",
    "user", "welcome.txt", "x">>
Rank(name) == CHOOSE i \in 1..Len(NameOrder) : NameOrder[i] = name

RECURSIVE insertSorted(_, _)
insertSorted(sorted, name) ==
  IF sorted = <<>> THEN <<name>>
  ELSE IF Rank(name) < Rank(Head(sorted)) THEN <<name>> \o sorted
  ELSE <<Head(sorted)>> \o insertSorted(Tail(sorted), name)

RECURSIVE sort(_)
sort(names) ==
  IF names = <<>> THEN <<>>
  ELSE insertSorted(sort(SubSeq(names, 1, Len(names) - 1)), names[Len(names)])

\* children.indexOf(name), 0 when absent (indexOf + 1)
indexOf(names, name) ==
  LET S == {i \in 1..Len(names) : names[i] = name}
  IN IF S = {} THEN 0 ELSE CHOOSE i \in S : \A j \in S : i <= j

\* children.splice(index, 1)
splice(names, i) == SubSeq(names, 1, i - 1) \o SubSeq(names, i + 1, Len(names))

(***************************************************************************)
(* FileSystemService: private helpers                                      *)
(***************************************************************************)
resolvePath(fs, path) ==
  IF isAbsolute(path) THEN normalize(path) ELSE resolve(fs.cwd, path)

\* FS_CONFIG.INVALID_CHARS and FS_CONFIG.RESERVED_NAMES on the tokens of the
\* model: the token "a?" holds an invalid character, toUpperCase("con") is
\* the reserved name CON
hasInvalidChar(path) == \E i \in 1..Len(path) : path[i] \in {"a?"}
isReserved(name) == name \in {"con"}

validatePath(path) ==
  IF StrLen(path) > MAX_PATH_LENGTH THEN EINVAL
  ELSE IF Len(basename(path)) > MAX_FILENAME_LENGTH THEN EINVAL
  ELSE IF hasInvalidChar(path) THEN EINVAL
  ELSE IF isReserved(basename(path)) THEN EINVAL
  ELSE OK

\* the loop of getStats over Object.values(this.state.nodes)
RECURSIVE getStatsLoop(_, _, _)
getStatsLoop(fs, paths, acc) ==
  IF paths = {} THEN acc
  ELSE LET p == CHOOSE q \in paths : TRUE
           node == Obj(fs, p)
           next == IF node.type = "file"
                   THEN [acc EXCEPT !.totalFiles = @ + 1, !.totalSize = @ + node.size]
                   ELSE [acc EXCEPT !.totalDirectories = @ + 1]
       IN getStatsLoop(fs, paths \ {p}, next)

\* getStats reporting the number of files as the storage used
getStats_countsFiles(fs) ==
  LET acc == getStatsLoop(fs, DOMAIN fs.index,
                          [totalFiles |-> 0, totalDirectories |-> 0, totalSize |-> 0])
  IN [totalFiles |-> acc.totalFiles,
      totalDirectories |-> acc.totalDirectories,
      totalSize |-> acc.totalSize,
      storageUsed |-> acc.totalFiles,
      storageLimit |-> MAX_TOTAL_SIZE]

getStats(fs) ==
  LET acc == getStatsLoop(fs, DOMAIN fs.index,
                          [totalFiles |-> 0, totalDirectories |-> 0, totalSize |-> 0])
  IN [totalFiles |-> acc.totalFiles,
      totalDirectories |-> acc.totalDirectories,
      totalSize |-> acc.totalSize,
      storageUsed |-> acc.totalSize,
      storageLimit |-> MAX_TOTAL_SIZE]

\* checkStorageLimit comparing the current usage alone with the ceiling
checkStorageLimit_ignoresAddition(fs, additionalSize) ==
  getStats(fs).storageUsed > MAX_TOTAL_SIZE

\* TRUE when checkStorageLimit throws ENOSPC
checkStorageLimit(fs, additionalSize) ==
  getStats(fs).storageUsed + additionalSize > MAX_TOTAL_SIZE

(***************************************************************************)
(* FileSystemService: public operations                                    *)
(***************************************************************************)
\* changeDirectory that assigns currentWorkingDirectory before it tests the
\* node's type
changeDirectory_assignsFirst(fs, path) ==
  Const(resolvePath(fs, path), LAMBDA resolvedPath :
    IF ~Has(fs, resolvedPath) THEN Throw(fs, ENOENT)
    ELSE IF Obj(fs, resolvedPath).type # "directory"
    THEN Throw([fs EXCEPT !.cwd = resolvedPath], ENOTDIR)
    ELSE Return(saveState([fs EXCEPT !.cwd = resolvedPath])))

changeDirectory(fs, path) ==
  Const(resolvePath(fs, path), LAMBDA resolvedPath :
    IF ~Has(fs, resolvedPath) THEN Throw(fs, ENOENT)
    ELSE IF Obj(fs, resolvedPath).type # "directory" THEN Throw(fs, ENOTDIR)
    ELSE Return(saveState([fs EXCEPT !.cwd = resolvedPath])))

readFile(fs, path) ==
  Const(resolvePath(fs, path), LAMBDA resolvedPath :
    IF ~Has(fs, resolvedPath) THEN Throw(fs, ENOENT)
    ELSE LET node == Obj(fs, resolvedPath)
         IN IF node.type # "file" THEN Throw(fs, EISDIR)
            ELSE IF "contentId" \notin DOMAIN node THEN Result(fs, OK, "")
            ELSE IF node.contentId \in DOMAIN fs.blobs
                 THEN Result(fs, OK, fs.blobs[node.contentId])
                 ELSE Result(fs, OK, ""))

\* parent.children.push(basename); parent.children.sort() on the object at
\* parentPath, when there is one and it has children; dedupe is createFile's
\* includes() test
registerInParent(fs, parentPath, name, dedupe) ==
  IF Has(fs, parentPath) /\ "children" \in DOMAIN Obj(fs, parentPath)
  THEN LET ref == fs.index[parentPath]
           children == fs.heap[ref].children
       IN IF dedupe /\ indexOf(children, name) > 0
          THEN [fs EXCEPT !.heap[ref].modifiedAt = fs.now]
          ELSE [fs EXCEPT !.heap[ref].children = sort(Append(children, name)),
                          !.heap[ref].modifiedAt = fs.now]
  ELSE fs

RECURSIVE createDirectory(_, _, _)
createDirectory(fs, path, recursive) ==
  Const(resolvePath(fs, path), LAMBDA resolvedPath :
  Const(parseInfo(resolvedPath), LAMBDA pathInfo :
    LET parentPath == pathInfo.parent
        \* the parent check: the state it leaves, or the error it throws
        checked ==
          IF ~Has(fs, parentPath)
          THEN IF recursive
               THEN \* with no root, createDirectory('/', true) calls itself
                    \* with the same argument for ever
                    IF parentPath = resolvedPath THEN Throw(fs, DIVERGES)
                    ELSE createDirectory(fs, parentPath, TRUE)
               ELSE Throw(fs, ENOENT)
          ELSE IF Obj(fs, parentPath).type # "directory" THEN Throw(fs, ENOTDIR)
          ELSE Return(fs)
    IN IF validatePath(resolvedPath) # OK THEN Throw(fs, EINVAL)
       ELSE IF Has(fs, resolvedPath) THEN Throw(fs, EEXIST)
       ELSE Then(checked, LAMBDA f, out :
              LET node == [name |-> pathInfo.basename, type |-> "directory",
                           path |-> resolvedPath, parent |-> parentPath,
                           size |-> 0, createdAt |-> f.now, modifiedAt |-> f.now,
                           children |-> <<>>]
              IN Return(saveState(registerInParent(SetNode(f, resolvedPath, node),
                                                   parentPath, pathInfo.basename, FALSE))))))

\* createFile that tests for an existing node whatever force says
createFile_ignoresForce(fs, path, content, force) ==
  Const(resolvePath(fs, path), LAMBDA resolvedPath :
  Const(parseInfo(resolvedPath), LAMBDA pathInfo :
    LET parentPath == pathInfo.parent
    IN IF validatePath(resolvedPath) # OK THEN Throw(fs, EINVAL)
       ELSE IF Has(fs, resolvedPath) THEN Throw(fs, EEXIST)
       ELSE IF ~Has(fs, parentPath) THEN Throw(fs, ENOENT)
       ELSE IF Obj(fs, parentPath).type # "directory" THEN Throw(fs, ENOTDIR)
       ELSE IF checkStorageLimit(fs, Len(content)) THEN Throw(fs, ENOSPC)
       ELSE Const(NewContentId(fs), LAMBDA contentId :
              LET node == [name |-> pathInfo.basename, type |-> "file",
                           path |-> resolvedPath, parent |-> parentPath,
                           size |-> Len(content), createdAt |-> fs.now,
                           modifiedAt |-> fs.now, extension |-> pathInfo.extension,
                           contentId |-> contentId]
                  stored == SetNode(SetBlob(fs, contentId, content), resolvedPath, node)
              IN Return(saveState(registerInParent(stored, parentPath,
                                                   pathInfo.basename, TRUE))))))

createFile(fs, path, content, force) ==
  Const(resolvePath(fs, path), LAMBDA resolvedPath :
  Const(parseInfo(resolvedPath), LAMBDA pathInfo :
    LET parentPath == pathInfo.parent
    IN IF validatePath(resolvedPath) # OK THEN Throw(fs, EINVAL)
       ELSE IF Has(fs, resolvedPath) /\ ~force THEN Throw(fs, EEXIST)
       ELSE IF ~Has(fs, parentPath) THEN Throw(fs, ENOENT)
       ELSE IF Obj(fs, parentPath).type # "directory" THEN Throw(fs, ENOTDIR)
       ELSE IF checkStorageLimit(fs, Len(content)) THEN Throw(fs, ENOSPC)
       ELSE Const(NewContentId(fs), LAMBDA contentId :
              LET node == [name |-> pathInfo.basename, type |-> "file",
                           path |-> resolvedPath, parent |-> parentPath,
                           size |-> Len(content), createdAt |-> fs.now,
                           modifiedAt |-> fs.now, extension |-> pathInfo.extension,
                           contentId |-> contentId]
                  stored == SetNode(SetBlob(fs, contentId, content), resolvedPath, node)
              IN Return(saveState(registerInParent(stored, parentPath,
                                                   pathInfo.basename, TRUE))))))

\* the branch `if (node)` of writeFile: node is the object captured before
\* the append's readFile
updateFile(fs, ref, finalContent) ==
  LET node == fs.heap[ref]
  IN IF checkStorageLimit(fs, Len(finalContent) - node.size) THEN Throw(fs, ENOSPC)
     ELSE LET contentId == IF "contentId" \in DOMAIN node
                           THEN node.contentId ELSE NewContentId(fs)
              written == SetBlob(fs, contentId, finalContent)
              updated == [n \in DOMAIN node \cup {"contentId"} |->
                            IF n = "size" THEN Len(finalContent)
                            ELSE IF n = "modifiedAt" THEN fs.now
                            ELSE IF n = "contentId" THEN contentId
                            ELSE node[n]]
          IN Return(saveState([written EXCEPT !.heap[ref] = updated]))

\* writeFile whose append overwrites: the existing content is not read
writeFile_appendOverwrites(fs, path, content, append) ==
  Const(resolvePath(fs, path), LAMBDA resolvedPath :
     IF Has(fs, resolvedPath)
     THEN LET ref == fs.index[resolvedPath]
          IN IF fs.heap[ref].type # "file" THEN Throw(fs, EISDIR)
             ELSE updateFile(fs, ref, content)
     ELSE createFile(fs, path, content, FALSE))

writeFile(fs, path, content, append) ==
  Const(resolvePath(fs, path), LAMBDA resolvedPath :
     IF Has(fs, resolvedPath)
     THEN LET ref == fs.index[resolvedPath]
          IN IF fs.heap[ref].type # "file" THEN Throw(fs, EISDIR)
             ELSE Then(IF append THEN readFile(fs, path) ELSE Result(fs, OK, ""),
                       LAMBDA f, existingContent :
                         updateFile(f, ref, existingContent \o content))
     ELSE createFile(fs, path, content, FALSE))

\* the tail of delete, after the children loop or the removal of the blob:
\* detach the captured node from its parent and drop it from nodes
deleteNode(fs, resolvedPath, ref) ==
  LET node == fs.heap[ref]
      detached ==
        IF node.parent # <<>> /\ Has(fs, node.parent)
           /\ "children" \in DOMAIN Obj(fs, node.parent)
        THEN LET pref == fs.index[node.parent]
                 index == indexOf(fs.heap[pref].children, node.name)
             IN IF index > 0
                THEN [fs EXCEPT !.heap[pref].children = splice(@, index),
                                !.heap[pref].modifiedAt = fs.now]
                ELSE fs
        ELSE fs
  IN Return(saveState(RemoveNode(detached, resolvedPath)))

\* delete and its `for (const childName of children)`: the iterator reads
\* the captured array children = node.children by position i, and the array
\* is the one the child's delete splices
RECURSIVE delete(_, _, _), deleteChildren(_, _, _, _)
deleteChildren(fs, resolvedPath, ref, i) ==
  LET children == fs.heap[ref].children
  IN IF i > Len(children) THEN Return(fs)
     ELSE LET childPath == join(resolvedPath, ToPath(children[i]))
          IN Then(delete(fs, childPath, TRUE),
                  LAMBDA f, out : deleteChildren(f, resolvedPath, ref, i + 1))

delete(fs, path, recursive) ==
  Const(resolvePath(fs, path), LAMBDA resolvedPath :
     IF ~Has(fs, resolvedPath) THEN Throw(fs, ENOENT)
     ELSE LET ref == fs.index[resolvedPath]
              node == fs.heap[ref]
          IN IF node.type = "directory"
             THEN IF Len(node.children) > 0 /\ ~recursive THEN Throw(fs, ENOTEMPTY)
                  ELSE Then(deleteChildren(fs, resolvedPath, ref, 1),
                            LAMBDA f, out : deleteNode(f, resolvedPath, ref))
             ELSE IF "contentId" \in DOMAIN node
                  THEN deleteNode(RemoveBlob(fs, node.contentId), resolvedPath, ref)
                  ELSE deleteNode(fs, resolvedPath, ref))

\* the branch `if (options.preserveTimestamps)` of copy: ref is the captured
\* sourceNode
restamp(fs, resolvedDest, ref, options) ==
  IF options.preserveTimestamps /\ Has(fs, resolvedDest)
  THEN [fs EXCEPT !.heap[fs.index[resolvedDest]].createdAt = fs.heap[ref].createdAt,
                  !.heap[fs.index[resolvedDest]].modifiedAt = fs.heap[ref].modifiedAt]
  ELSE fs

\* copy; options is [recursive, force, preserveTimestamps]
RECURSIVE copy(_, _, _, _), copyChildren(_, _, _, _, _, _)
copyChildren(fs, resolvedSource, resolvedDest, ref, options, i) ==
  LET children == fs.heap[ref].children
  IN IF i > Len(children) THEN Return(fs)
     ELSE LET childSource == join(resolvedSource, ToPath(children[i]))
              childDest == join(resolvedDest, ToPath(children[i]))
          IN Then(copy(fs, childSource, childDest, options),
                  LAMBDA f, out :
                    copyChildren(f, resolvedSource, resolvedDest, ref, options, i + 1))

\* copy that re-stamps the copied file after the state has been saved
copy_restampsAfterSave(fs, sourcePath, destPath, options) ==
  Const(resolvePath(fs, sourcePath), LAMBDA resolvedSource :
  Const(resolvePath(fs, destPath), LAMBDA resolvedDest :
     IF ~Has(fs, resolvedSource) THEN Throw(fs, ENOENT)
     ELSE IF Has(fs, resolvedDest) /\ ~options.force THEN Throw(fs, EEXIST)
     ELSE LET ref == fs.index[resolvedSource]
          IN IF fs.heap[ref].type = "file"
             THEN Then(readFile(fs, sourcePath),
                       LAMBDA f, content :
                         Then(createFile(f, destPath, content, options.force),
                              LAMBDA g, out :
                                Return(restamp(saveState(g), resolvedDest, ref, options))))
             ELSE IF ~options.recursive THEN Throw(fs, EISDIR)
             ELSE Then(createDirectory(fs, destPath, FALSE),
                       LAMBDA f, out1 :
                         Then(copyChildren(f, resolvedSource, resolvedDest, ref, options, 1),
                              LAMBDA g, out2 : Return(saveState(g))))))

copy(fs, sourcePath, destPath, options) ==
  Const(resolvePath(fs, sourcePath), LAMBDA resolvedSource :
  Const(resolvePath(fs, destPath), LAMBDA resolvedDest :
     IF ~Has(fs, resolvedSource) THEN Throw(fs, ENOENT)
     ELSE IF Has(fs, resolvedDest) /\ ~options.force THEN Throw(fs, EEXIST)
     ELSE LET ref == fs.index[resolvedSource]
          IN IF fs.heap[ref].type = "file"
             THEN Then(readFile(fs, sourcePath),
                       LAMBDA f, content :
                         Then(createFile(f, destPath, content, options.force),
                              LAMBDA g, out :
                                Return(saveState(restamp(g, resolvedDest, ref, options)))))
             ELSE IF ~options.recursive THEN Throw(fs, EISDIR)
             ELSE Then(createDirectory(fs, destPath, FALSE),
                       LAMBDA f, out1 :
                         Then(copyChildren(f, resolvedSource, resolvedDest, ref, options, 1),
                              LAMBDA g, out2 : Return(saveState(g))))))

move(fs, sourcePath, destPath) ==
  Then(copy(fs, sourcePath, destPath,
            [recursive |-> TRUE, force |-> TRUE, preserveTimestamps |-> FALSE]),
       LAMBDA f, out : delete(f, sourcePath, TRUE))

exists(fs, path) == Has(fs, resolvePath(fs, path))

\* a.localeCompare(b) on the names and extensions of the model, which the
\* collation orders as NameOrder and ExtensionOrder list them
ExtensionOrder == <<"", ".md", ".txt">>
ExtensionRank(e) == CHOOSE i \in 1..Len(ExtensionOrder) : ExtensionOrder[i] = e
localeCompare(rankA, rankB) ==
  IF rankA < rankB THEN -1 ELSE IF rankA > rankB THEN 1 ELSE 0

\* the comparator of sortItems; options is [sortBy, reverse, showHidden]
compareItems(a, b, options) ==
  LET comparison ==
        IF a.type # b.type THEN (IF a.type = "directory" THEN -1 ELSE 1)
        ELSE IF options.sortBy = "size" THEN a.size - b.size
        ELSE IF options.sortBy = "date" THEN a.modifiedAt - b.modifiedAt
        ELSE IF options.sortBy = "type"
             THEN localeCompare(
                    ExtensionRank(IF "extension" \in DOMAIN a THEN a.extension ELSE ""),
                    ExtensionRank(IF "extension" \in DOMAIN b THEN b.extension ELSE ""))
        ELSE localeCompare(Rank(a.name), Rank(b.name))
  IN IF options.reverse THEN -comparison ELSE comparison

\* items.sort(comparator): the sort is stable, so an item goes behind every
\* item the comparator does not put after it
RECURSIVE insertItem(_, _, _, _)
insertItem(fs, sorted, ref, options) ==
  IF sorted = <<>> THEN <<ref>>
  ELSE IF compareItems(fs.heap[sorted[Len(sorted)]], fs.heap[ref], options) <= 0
       THEN Append(sorted, ref)
       ELSE Append(insertItem(fs, SubSeq(sorted, 1, Len(sorted) - 1), ref, options),
                   sorted[Len(sorted)])

RECURSIVE sortItems(_, _, _)
sortItems(fs, items, options) ==
  IF items = <<>> THEN <<>>
  ELSE insertItem(fs, sortItems(fs, SubSeq(items, 1, Len(items) - 1), options),
                  items[Len(items)], options)

\* childName.startsWith('.') on the names of the model
startsWithDot(name) == name \in {".env"}

\* the loop of listDirectory over the children: the references of the nodes
\* it pushes into items
RECURSIVE listItems(_, _, _, _)
listItems(fs, targetPath, children, options) ==
  IF children = <<>> THEN <<>>
  ELSE LET childPath == join(targetPath, ToPath(Head(children)))
           rest == listItems(fs, targetPath, Tail(children), options)
       IN IF Has(fs, childPath) /\ (options.showHidden \/ ~startsWithDot(Head(children)))
          THEN <<fs.index[childPath]>> \o rest
          ELSE rest

\* listDirectory(path, options); path = <<>> is the omitted (or empty) path.
\* out is the array it returns: the node objects themselves, by reference
listDirectory(fs, path, options) ==
  Const(IF path # <<>> THEN resolvePath(fs, path) ELSE fs.cwd, LAMBDA targetPath :
    IF ~Has(fs, targetPath) THEN Throw(fs, ENOENT)
    ELSE LET node == Obj(fs, targetPath)
         IN IF node.type # "directory" THEN Throw(fs, ENOTDIR)
            ELSE Result(fs, OK,
                        sortItems(fs, listItems(fs, targetPath,
                                                IF "children" \in DOMAIN node
                                                THEN node.children ELSE <<>>,
                                                options),
                                  options)))

\* stat(path): `{...node}` is a new object whose fields hold the values of
\* node's fields, so its children is the array node.children itself.  out
\* is [node, shares]: the copy, and the reference of the node whose children
\* array the copy holds
stat(fs, path) ==
  Const(resolvePath(fs, path), LAMBDA resolvedPath :
    IF ~Has(fs, resolvedPath) THEN Throw(fs, ENOENT)
    ELSE Result(fs, OK, [node |-> Obj(fs, resolvedPath),
                         shares |-> fs.index[resolvedPath]]))

(***************************************************************************)
(* State.  Between operations no local variable holds a node, so the nodes *)
(* are kept as path -> FileNode.                                           *)
(***************************************************************************)
VARIABLES
  nodes,                    \* this.state.nodes
  currentWorkingDirectory,  \* this.state.currentWorkingDirectory
  blobs,                    \* key-value store: content id -> content
  persisted,                \* key-value store: the saved FileSystemState
  last,                     \* the last call: operation, arguments, outcome
  calls,                    \* the number of calls made
  stack,                    \* per task: the frames of the call it is running
  resolutions,              \* per task: <<argument, path resolvePath gave>>
  before,                   \* nodes when the running operation was called
  seen,                     \* nodes at the awaits of the running operation
  initialized,              \* this.initialized
  loads,                    \* the number of times initialize assigned this.state
  made,                     \* the paths created by the calls that have returned
  returned,                 \* the value a read operation handed to its caller
  commands,                 \* the command registry: key -> command
  handled,                  \* the number of times a command handler was invoked
  theme,                    \* the theme slice of the store
  history,                  \* the command lines executed so far
  ui                        \* the terminal component's state and its timers

vars == <<nodes, currentWorkingDirectory, blobs, persisted, last, calls,
          stack, resolutions, before, seen, initialized, loads, made, returned,
          commands, handled, theme, history, ui>>

\* the callers whose calls may overlap: one runs the operations on nodes
\* and blobs, one changes the working directory
Tasks == {"op", "cd"}

\* the state in open form: every node is referred to by its own path
FS == [index |-> [p \in DOMAIN nodes |-> p],
       heap |-> nodes,
       cwd |-> currentWorkingDirectory,
       blobs |-> blobs,
       persisted |-> persisted,
       initialized |-> initialized,
       loads |-> loads,
       now |-> calls + 1]

(***************************************************************************)
(* createDefaultFileSystem.  The welcome text is shortened to one          *)
(* character; its content id 'welcome-txt' is id 0.                        *)
(***************************************************************************)
HOME == <<"/", "home">>
USER == <<"/", "home", "/", "user">>
WELCOME == <<"/", "home", "/", "user", "/", "welcome.txt">>
TMP == <<"/", "tmp">>
welcomeContent == "W"

createDefaultFileSystem ==
  LET rootNode == [name |-> "", type |-> "directory", path |-> ROOT, parent |-> <<>>,
                   size |-> 0, createdAt |-> 0, modifiedAt |-> 0,
                   children |-> <<"home", "tmp">>]
      homeNode == [name |-> "home", type |-> "directory", path |-> HOME, parent |-> ROOT,
                   size |-> 0, createdAt |-> 0, modifiedAt |-> 0,
                   children |-> <<"user">>]
      userNode == [name |-> "user", type |-> "directory", path |-> USER, parent |-> HOME,
                   size |-> 0, createdAt |-> 0, modifiedAt |-> 0,
                   children |-> <<"welcome.txt">>]
      tmpNode == [name |-> "tmp", type |-> "directory", path |-> TMP, parent |-> ROOT,
                  size |-> 0, createdAt |-> 0, modifiedAt |-> 0, children |-> <<>>]
      welcomeNode == [name |-> "welcome.txt", type |-> "file", path |-> WELCOME,
                      parent |-> USER, size |-> Len(welcomeContent),
                      createdAt |-> 0, modifiedAt |-> 0, extension |-> ".txt",
                      contentId |-> 0]
  IN [nodes |-> [p \in {ROOT, HOME, USER, WELCOME, TMP} |->
                   IF p = ROOT THEN rootNode
                   ELSE IF p = HOME THEN homeNode
                   ELSE IF p = USER THEN userNode
                   ELSE IF p = WELCOME THEN welcomeNode
                   ELSE tmpNode],
      currentWorkingDirectory |-> USER]

\* the arguments of the model: paths (absolute and relative to the working
\* directory) and contents
NOTES == <<"notes">>
NOTES_A == <<"notes", "/", "a.txt">>
WELCOME_REL == <<"welcome.txt">>
PathArgs == {ROOT, TMP, USER, WELCOME_REL, NOTES, NOTES_A}
ContentArgs == {"", "x", "yy"}
\* the arguments each operation is called with
CdArgs == {TMP, NOTES, WELCOME_REL}
ReadArgs == {USER, NOTES, WELCOME_REL}
MkdirArgs == {TMP, NOTES, NOTES_A}
CreateArgs == {ROOT, WELCOME_REL, NOTES, NOTES_A}
CreateContentArgs == {"", "yy"}
WriteArgs == {WELCOME_REL, NOTES, NOTES_A}
WriteContentArgs == {"x", "yy"}
DeleteArgs == {ROOT, USER, WELCOME_REL, NOTES}
SourceArgs == {USER, WELCOME_REL, NOTES}
DestArgs == {TMP, NOTES, NOTES_A}

\* a call: the operation, its path arguments, content and flags, the code
\* it threw or OK, and the value it returned
NoCall == [op |-> "initialize", path |-> <<>>, dest |-> <<>>, content |-> "",
           flag |-> FALSE, flag2 |-> FALSE, flag3 |-> FALSE, err |-> OK, out |-> ""]
Call(op, path, dest, content, flag, flag2) ==
  [op |-> op, path |-> path, dest |-> dest, content |-> content,
   flag |-> flag, flag2 |-> flag2, flag3 |-> FALSE, err |-> OK, out |-> ""]

\* no read operation has returned a value yet
NoValue == [kind |-> "none"]

(***************************************************************************)
(* The command registry.  commands is a plain object: a key that is not an *)
(* own property is looked up in Object.prototype, whose lower-case keys    *)
(* are 'constructor' and '__proto__'.                                      *)
(***************************************************************************)
undefined == [kind |-> "undefined", name |-> "", aliases |-> <<>>, args |-> <<>>]

\* A parsed value: a string as its words (joined by single spaces), a
\* boolean, or an array of strings.
StringValue(words) == [kind |-> "string", items |-> words]
BooleanValue(b) == [kind |-> "boolean", items |-> <<IF b THEN "true" ELSE "false">>]
ArrayValue(items) == [kind |-> "array", items |-> items]
\* null, and a `default` that is not declared
null == [kind |-> "null", items |-> <<>>]

\* the Terminal component after its first render: the useState and useRef
\* initial values (Terminal.tsx:70-80); timers and requests are the host's
\* pending timeouts and the getCompletions calls not yet resolved; lastChange
\* and fired record the latest input change and the latest expired timer
initialUi ==
  [currentInput |-> "", showCompletions |-> FALSE, completionResult |-> null,
   selectedCompletionIndex |-> 0, showLiveSuggestions |-> FALSE,
   liveSuggestionResult |-> null, liveSuggestionsTimeoutRef |-> 0,
   timers |-> {}, requests |-> <<>>, lastChange |-> "", fired |-> null]

\* a CommandArg; nested <<>> is a definition without `nested`, type
\* "string[]" a type that is the array `values`
Arg(name, type, required, default) ==
  [name |-> name, type |-> type, values |-> <<>>, required |-> required,
   default |-> default, nested |-> <<>>]

helpCommand ==
  [kind |-> "command", name |-> "help", aliases |-> <<"?">>,
   args |-> <<Arg("command", "string", FALSE, null)>>]
clearCommand ==
  [kind |-> "command", name |-> "clear", aliases |-> <<"cls">>, args |-> <<>>]
pwdCommand ==
  [kind |-> "command", name |-> "pwd", aliases |-> <<>>, args |-> <<>>]
cdCommand ==
  [kind |-> "command", name |-> "cd", aliases |-> <<>>,
   args |-> <<Arg("path", "string", FALSE, StringValue(<<"/home/user">>))>>]
lsCommand ==
  [kind |-> "command", name |-> "ls", aliases |-> <<"dir">>,
   args |-> <<Arg("path", "string", FALSE, null),
              Arg("long", "boolean", FALSE, BooleanValue(FALSE)),
              Arg("all", "boolean", FALSE, BooleanValue(FALSE))>>]
mkdirCommand ==
  [kind |-> "command", name |-> "mkdir", aliases |-> <<>>,
   args |-> <<Arg("path", "string", TRUE, null),
              Arg("parents", "boolean", FALSE, BooleanValue(FALSE))>>]
touchCommand ==
  [kind |-> "command", name |-> "touch", aliases |-> <<>>,
   args |-> <<Arg("path", "string", TRUE, null)>>]
themeCommand ==
  [kind |-> "command", name |-> "theme", aliases |-> <<>>,
   args |-> <<[name |-> "action", type |-> "string[]",
               values |-> <<"list", "set", "export", "import", "current">>,
               required |-> FALSE, default |-> StringValue(<<"list">>),
               nested |-> <<Arg("list", "string", FALSE, null),
                            [Arg("set", "string", FALSE, null) EXCEPT
                               !.nested = <<Arg("themeName", "theme", TRUE, null)>>],
                            [Arg("export", "string", FALSE, null) EXCEPT
                               !.nested = <<Arg("themeName", "theme", TRUE, null)>>],
                            [Arg("import", "string", FALSE, null) EXCEPT
                               !.nested = <<Arg("themeJson", "string", TRUE, null)>>],
                            Arg("current", "string", FALSE, null)>>]>>]

\* the names a caller passes to executeCommand
CommandNames ==
  {"help", "HELP", "?", "cls", "Mkdir", "theme", "nosuch", "constructor", "__proto__",
   "toString"}

toLowerCase(s) ==
  CASE s = "HELP" -> "help"
    [] s = "Mkdir" -> "mkdir"
    [] s = "toString" -> "tostring"
    [] s = "Th" -> "th"
    [] OTHER -> s

\* const commands = {}, over the property keys in use
NoCommands ==
  [key \in {toLowerCase(n) : n \in CommandNames} \cup
           {"help", "clear", "mkdir", "pwd", "cd", "ls", "dir", "touch"}
     |-> undefined]

\* what a key that is not an own property of commands evaluates to
ObjectPrototype(key) ==
  IF key \in {"constructor", "__proto__"}
  THEN [kind |-> "inherited", name |-> key, aliases |-> <<>>, args |-> <<>>]
  ELSE undefined

RECURSIVE registerAliases(_, _, _)
registerAliases(cmds, aliases, command) ==
  IF aliases = <<>> THEN cmds
  ELSE registerAliases([cmds EXCEPT ![toLowerCase(Head(aliases))] = command],
                       Tail(aliases), command)

registerCommand(cmds, command) ==
  registerAliases([cmds EXCEPT ![toLowerCase(command.name)] = command],
                  command.aliases, command)

getCommand(cmds, name) ==
  LET key == toLowerCase(name)
  IN IF cmds[key] # undefined THEN cmds[key] ELSE ObjectPrototype(key)

(***************************************************************************)
(* ArgumentParser.  The result object is a function from the keys it has   *)
(* to their values; an error message is the sequence of its parts.  No     *)
(* definition of the model declares `choices`, and none has the types      *)
(* number, url, file or format.                                            *)
(***************************************************************************)
NoArgs == [name \in {} |-> null]
Put(result, name, value) ==
  [n \in DOMAIN result \cup {name} |-> IF n = name THEN value ELSE result[n]]
\* Object.assign(result, more)
Assign(result, more) ==
  [n \in DOMAIN result \cup DOMAIN more |-> IF n \in DOMAIN more THEN more[n] ELSE result[n]]
\* `result[name]` is truthy
Truthy(result, name) ==
  /\ name \in DOMAIN result
  /\ result[name].kind = "string" => result[name].items \notin {<<>>, <<"">>}
  /\ result[name].kind = "boolean" => result[name].items = <<"true">>
  /\ result[name].kind # "null"

Failure(error) == [success |-> FALSE, args |-> NoArgs, error |-> error, argIndex |-> 0]

convertType(value, argDef) ==
  IF argDef.type = "string[]"
  THEN IF \E k \in 1..Len(argDef.values) : argDef.values[k] = value
       THEN StringValue(<<value>>) ELSE null
  ELSE IF argDef.type = "boolean"
  THEN IF value \in {"true", "1", "yes", "on"} THEN BooleanValue(TRUE)
       ELSE IF value \in {"false", "0", "no", "off"} THEN BooleanValue(FALSE)
       ELSE null
  ELSE StringValue(<<value>>)

\* sub.name of each nested definition, joined by ', '
RECURSIVE joinNames(_)
joinNames(nested) ==
  IF nested = <<>> THEN <<>>
  ELSE IF Len(nested) = 1 THEN <<nested[1].name>>
  ELSE <<nested[1].name, ", ">> \o joinNames(Tail(nested))

\* nested.find(sub => sub.name === inputValue): the index of the first
\* match from k on, 0 if there is none
RECURSIVE find(_, _, _)
find(nested, inputValue, k) ==
  IF k > Len(nested) THEN 0
  ELSE IF nested[k].name = inputValue THEN k
  ELSE find(nested, inputValue, k + 1)

RECURSIVE parse(_, _)
RECURSIVE parseLoop(_, _, _, _, _)
RECURSIVE parseLoop_skipsRequired(_, _, _, _, _)
\* the loop without the test of `required`: an entry without input is
\* skipped, or filled from its default
parseLoop_skipsRequired(args, definition, i, argIndex, result) ==
  IF i > Len(definition)
  THEN [success |-> TRUE, args |-> result, error |-> <<>>, argIndex |-> argIndex]
  ELSE LET argDef == definition[i]
           hasInput == argIndex < Len(args) /\ args[argIndex + 1] # ""
           inputValue == args[argIndex + 1]
       IN IF argDef.nested # <<>>
          THEN IF ~hasInput
               THEN parseLoop_skipsRequired(args, definition, i + 1, argIndex, result)
               ELSE IF find(argDef.nested, inputValue, 1) = 0
               THEN Failure(<<"Invalid ", argDef.name, ": ", inputValue,
                              ". Valid options: ">> \o joinNames(argDef.nested))
               ELSE LET subcommand == argDef.nested[find(argDef.nested, inputValue, 1)]
                        stored == Put(result, argDef.name, StringValue(<<inputValue>>))
                    IN IF subcommand.nested # <<>>
                       THEN LET nestedResult ==
                                  parse(SubSeq(args, argIndex + 2, Len(args)), subcommand.nested)
                            IN IF ~nestedResult.success THEN nestedResult
                               ELSE parseLoop_skipsRequired(args, definition, i + 1,
                                              argIndex + 1 + Cardinality(DOMAIN nestedResult.args),
                                              Assign(stored, nestedResult.args))
                       ELSE parseLoop_skipsRequired(args, definition, i + 1, argIndex + 1, stored)
          ELSE IF ~hasInput
          THEN parseLoop_skipsRequired(args, definition, i + 1, argIndex,
                              IF argDef.default # null
                              THEN Put(result, argDef.name, argDef.default) ELSE result)
          ELSE IF convertType(inputValue, argDef) = null
          THEN Failure(<<"Invalid ", argDef.type, " value for ", argDef.name, ": ", inputValue>>)
          ELSE parseLoop_skipsRequired(args, definition, i + 1, argIndex + 1,
                         Put(result, argDef.name, convertType(inputValue, argDef)))

\* the for loop of parse from definition[i] on (i counts from 1, argIndex
\* from 0 as in the code)
parseLoop(args, definition, i, argIndex, result) ==
  IF i > Len(definition)
  THEN [success |-> TRUE, args |-> result, error |-> <<>>, argIndex |-> argIndex]
  ELSE LET argDef == definition[i]
           hasInput == argIndex < Len(args) /\ args[argIndex + 1] # ""
           inputValue == args[argIndex + 1]
       IN IF argDef.nested # <<>>
          THEN IF ~hasInput
               THEN IF argDef.required
                    THEN Failure(<<"Missing required argument: ", argDef.name>>)
                    ELSE parseLoop(args, definition, i + 1, argIndex, result)
               ELSE IF find(argDef.nested, inputValue, 1) = 0
               THEN Failure(<<"Invalid ", argDef.name, ": ", inputValue,
                              ". Valid options: ">> \o joinNames(argDef.nested))
               ELSE LET subcommand == argDef.nested[find(argDef.nested, inputValue, 1)]
                        stored == Put(result, argDef.name, StringValue(<<inputValue>>))
                    IN IF subcommand.nested # <<>>
                       THEN LET nestedResult ==
                                  parse(SubSeq(args, argIndex + 2, Len(args)), subcommand.nested)
                            IN IF ~nestedResult.success THEN nestedResult
                               ELSE parseLoop(args, definition, i + 1,
                                              argIndex + 1 + Cardinality(DOMAIN nestedResult.args),
                                              Assign(stored, nestedResult.args))
                       ELSE parseLoop(args, definition, i + 1, argIndex + 1, stored)
          ELSE IF ~hasInput
          THEN IF argDef.required
               THEN Failure(<<"Missing required argument: ", argDef.name>>)
               ELSE parseLoop(args, definition, i + 1, argIndex,
                              IF argDef.default # null
                              THEN Put(result, argDef.name, argDef.default) ELSE result)
          ELSE IF convertType(inputValue, argDef) = null
          THEN Failure(<<"Invalid ", argDef.type, " value for ", argDef.name, ": ", inputValue>>)
          ELSE parseLoop(args, definition, i + 1, argIndex + 1,
                         Put(result, argDef.name, convertType(inputValue, argDef)))

parse(args, definition) ==
  LET r == parseLoop(args, definition, 1, 0, NoArgs)
      remainingArgs == SubSeq(args, r.argIndex + 1, Len(args))
      first == definition[1].name
      lastArg == definition[Len(definition)]
  IN IF ~r.success \/ ~(r.argIndex < Len(args)) THEN r
     ELSE IF Len(definition) = 1 /\ definition[1].type = "string"
     THEN [r EXCEPT !.args =
             Put(r.args, first,
                 IF Truthy(r.args, first)
                 THEN StringValue(r.args[first].items \o remainingArgs)
                 ELSE StringValue(remainingArgs))]
     ELSE IF definition # <<>> /\ lastArg.type = "string[]"
     THEN [r EXCEPT !.args =
             Put(r.args, lastArg.name,
                 IF Truthy(r.args, lastArg.name)
                 THEN ArrayValue(r.args[lastArg.name].items \o remainingArgs)
                 ELSE ArrayValue(remainingArgs))]
     ELSE r

(***************************************************************************)
(* The command handlers.  A handler runs on the world [fs, theme]: the     *)
(* file system service and the theme slice of the store.  Text is the      *)
(* sequence of its parts; <<>> is the value undefined.                     *)
(***************************************************************************)
Returns(world, value) == [world |-> world, thrown |-> FALSE, value |-> value]
Throws(world, error) == [world |-> world, thrown |-> TRUE, value |-> <<error>>]

\* the path string a parsed string value holds
PathOf(value) == IF value.items = <<"/home/user">> THEN USER ELSE value.items

pwdHandler(world, args) == Returns(world, world.fs.cwd)

\* cd that answers without the working directory having changed
cdHandler_keepsDirectory(world, args) ==
  LET path == IF Truthy(args, "path") THEN PathOf(args["path"]) ELSE USER
      r == changeDirectory(world.fs, path)
  IN IF r.err # OK THEN Returns(world, <<"cd: ", r.err>>)
     ELSE Returns(world, <<"Changed directory to: ">> \o world.fs.cwd)

cdHandler(world, args) ==
  LET path == IF Truthy(args, "path") THEN PathOf(args["path"]) ELSE USER
      r == changeDirectory(world.fs, path)
  IN IF r.err # OK THEN Returns([world EXCEPT !.fs = r.fs], <<"cd: ", r.err>>)
     ELSE Returns([world EXCEPT !.fs = r.fs], <<"Changed directory to: ">> \o r.fs.cwd)

\* the names of the items, a directory's followed by '/'; with args.long
\* each after its type character
RECURSIVE lsLines(_, _, _)
lsLines(fs, items, long) ==
  IF items = <<>> THEN <<>>
  ELSE LET item == fs.heap[Head(items)]
       IN (IF long THEN <<IF item.type = "directory" THEN "d" ELSE "-">> ELSE <<>>)
          \o <<item.name>>
          \o (IF item.type = "directory" THEN <<"/">> ELSE <<>>)
          \o lsLines(fs, Tail(items), long)

lsHandler(world, args) ==
  LET r == listDirectory(world.fs,
                         IF "path" \in DOMAIN args THEN PathOf(args["path"]) ELSE <<>>,
                         [showHidden |-> Truthy(args, "all"), sortBy |-> "name",
                          reverse |-> FALSE])
  IN IF r.err # OK THEN Returns([world EXCEPT !.fs = r.fs], <<"ls: ", r.err>>)
     ELSE IF r.out = <<>> THEN Returns(world, <<"Directory is empty">>)
     ELSE Returns(world, lsLines(r.fs, r.out, Truthy(args, "long")))

mkdirHandler(world, args) ==
  LET r == createDirectory(world.fs, PathOf(args["path"]), Truthy(args, "parents"))
  IN IF "path" \notin DOMAIN args THEN Returns(world, <<"mkdir: ", "TypeError">>)
     ELSE IF r.err # OK THEN Returns([world EXCEPT !.fs = r.fs], <<"mkdir: ", r.err>>)
     ELSE Returns([world EXCEPT !.fs = r.fs],
                  <<"Directory created: ">> \o args["path"].items)

touchHandler(world, args) ==
  LET path == PathOf(args["path"])
      r == IF exists(world.fs, path)
           THEN Then(readFile(world.fs, path), LAMBDA fs, content :
                  writeFile(fs, path, content, FALSE))
           ELSE createFile(world.fs, path, "", FALSE)
  IN IF "path" \notin DOMAIN args THEN Returns(world, <<"touch: ", "TypeError">>)
     ELSE IF r.err # OK THEN Returns([world EXCEPT !.fs = r.fs], <<"touch: ", r.err>>)
     ELSE Returns([world EXCEPT !.fs = r.fs],
                  <<IF exists(world.fs, path) THEN "Updated timestamp: " ELSE "File created: ">>
                  \o args["path"].items)

\* presetThemes, and the keys every object literal inherits
presetThemes == {"dark", "light", "matrix", "retro"}
InheritedKeys == {"constructor", "__proto__", "toString", "valueOf", "hasOwnProperty"}

initialState == [currentThemeName |-> "dark", customThemes |-> {}]

\* `allThemes[themeName]` is truthy, allThemes being
\* { ...presetThemes, ...customThemes }
hasTheme(state, themeName) ==
  themeName \in presetThemes \cup state.customThemes \cup InheritedKeys

\* the reducers of themeSlice
setTheme(state, themeName) ==
  IF hasTheme(state, themeName) THEN [state EXCEPT !.currentThemeName = themeName]
  ELSE state
\* importTheme: the JSON texts of the model that parse to a theme with a
\* name and colors are '{neon}', a theme named neon
importTheme(state, themeJson) ==
  IF themeJson = <<"{neon}">> THEN [state EXCEPT !.customThemes = @ \cup {"neon"}]
  ELSE state

themeHandler(world, args) ==
  LET action == IF Truthy(args, "action") THEN args["action"] ELSE StringValue(<<"list">>)
      themeName == IF "themeName" \in DOMAIN args THEN args["themeName"].items[1]
                   ELSE "undefined"
  IN IF action = StringValue(<<"list">>)
     THEN Returns(world, <<"Available themes:">>)
     ELSE IF action = StringValue(<<"set">>)
     THEN IF hasTheme(world.theme, themeName)
          THEN Returns([world EXCEPT !.theme = setTheme(world.theme, themeName)],
                       <<"Switched to theme: ", themeName>>)
          ELSE Returns(world, <<"Theme not found: ", themeName,
                                ". Use \"theme list\" to see available themes.">>)
     ELSE IF action = StringValue(<<"export">>)
     THEN IF ~hasTheme(world.theme, themeName)
          THEN Returns(world, <<"Theme not found: ", themeName>>)
          ELSE Returns(world, <<"Theme \"", themeName, "\" exported and copied to clipboard.">>)
     ELSE IF action = StringValue(<<"import">>)
     THEN Returns([world EXCEPT !.theme = importTheme(world.theme, args["themeJson"].items)],
                  <<"Theme imported successfully!">>)
     ELSE IF action = StringValue(<<"current">>)
     THEN Returns(world, <<"Current theme: ", world.theme.currentThemeName>>)
     ELSE Returns(world, <<"Unknown action">>)

\* command.handler(ctx, args).  The handlers of help and clear are not
\* modelled by their code: behaviour is what such a handler does, it returns
\* a string, returns undefined, throws, or returns a promise that rejects.
handler(command, world, args, behaviour) ==
  CASE command.name = "pwd" -> pwdHandler(world, args)
    [] command.name = "cd" -> cdHandler(world, args)
    [] command.name = "ls" -> lsHandler(world, args)
    [] command.name = "mkdir" -> mkdirHandler(world, args)
    [] command.name = "touch" -> touchHandler(world, args)
    [] command.name = "theme" -> themeHandler(world, args)
    [] OTHER -> IF behaviour = "throws" THEN Throws(world, "Error: failed")
                ELSE IF behaviour = "rejects" THEN Throws(world, "Error: rejected")
                ELSE IF behaviour = "undefined" THEN Returns(world, <<>>)
                ELSE Returns(world, <<"result">>)

\* the try block of executeCommand: what it returns, or what it throws
tryBlock(command, world, args, behaviour) ==
  IF command.kind = "inherited"
  THEN \* command.args is undefined: parse throws
       [thrown |-> TRUE, output |-> <<"TypeError">>, type |-> "", handled |-> 0,
        world |-> world]
  ELSE Const(parse(args, command.args), LAMBDA parseResult :
       IF ~parseResult.success
       THEN [thrown |-> FALSE, output |-> parseResult.error \o <<"\n\n", command.name>>,
             type |-> "error", handled |-> 0, world |-> world]
       ELSE Const(handler(command, world, parseResult.args, behaviour), LAMBDA result :
            [thrown |-> result.thrown, output |-> result.value,
             type |-> IF result.thrown THEN "" ELSE "success", handled |-> 1,
             world |-> result.world]))

\* executeCommand without its catch: what the try block throws reaches the
\* caller as a rejected promise
executeCommand_withoutCatch(cmds, world, commandName, args, behaviour) ==
  Const(getCommand(cmds, commandName), LAMBDA command :
    IF command = undefined
    THEN [output |-> <<"Command not found: ", commandName,
                       ". Type \"help\" for available commands.">>,
          type |-> "error", handled |-> 0, world |-> world]
    ELSE Const(tryBlock(command, world, args, behaviour), LAMBDA attempt :
         [output |-> attempt.output,
          type |-> IF attempt.thrown THEN "rejected" ELSE attempt.type,
          handled |-> attempt.handled, world |-> attempt.world]))

\* executeCommand.  output <<>> stands for an outcome without output;
\* handled counts the handler invocations.
executeCommand(cmds, world, commandName, args, behaviour) ==
  Const(getCommand(cmds, commandName), LAMBDA command :
    IF command = undefined
    THEN [output |-> <<"Command not found: ", commandName,
                       ". Type \"help\" for available commands.">>,
          type |-> "error", handled |-> 0, world |-> world]
    ELSE Const(tryBlock(command, world, args, behaviour), LAMBDA attempt :
         IF attempt.thrown
         THEN [output |-> <<"Error executing command: ">> \o attempt.output,
               type |-> "error", handled |-> attempt.handled, world |-> attempt.world]
         ELSE [output |-> attempt.output, type |-> attempt.type,
               handled |-> attempt.handled, world |-> attempt.world]))

\* initialize() on an empty store: seed, store the welcome blob, saveState
Init ==
  /\ nodes = createDefaultFileSystem.nodes
  /\ currentWorkingDirectory = createDefaultFileSystem.currentWorkingDirectory
  /\ blobs = [i \in {0} |-> welcomeContent]
  /\ persisted = createDefaultFileSystem
  /\ last = NoCall
  /\ calls = 0
  /\ stack = [t \in Tasks |-> <<>>]
  /\ resolutions = [t \in Tasks |-> {}]
  /\ before = createDefaultFileSystem.nodes
  /\ seen = {}
  /\ initialized = TRUE
  /\ loads = 1
  /\ made = {}
  /\ returned = NoValue
  /\ commands = NoCommands
  /\ handled = 0
  /\ theme = initialState
  /\ history = <<>>
  /\ ui = initialUi

\* the state an operation leaves, whether it returned or threw
Becomes(r, call) ==
  /\ calls < MaxCalls
  /\ r.err # DIVERGES
  /\ Cardinality(DOMAIN r.fs.blobs) <= MaxBlobs
  /\ nodes' = Close(r.fs)
  /\ currentWorkingDirectory' = r.fs.cwd
  /\ blobs' = r.fs.blobs
  /\ persisted' = r.fs.persisted
  /\ last' = [call EXCEPT !.err = r.err, !.out = r.out]
  /\ calls' = calls + 1
  /\ returned' = NoValue
  /\ UNCHANGED <<stack, resolutions, before, seen, initialized, loads, made,
                 commands, handled, theme, history, ui>>

ChangeDirectory ==
  \E path \in CdArgs :
    Becomes(changeDirectory(FS, path),
            Call("changeDirectory", path, <<>>, "", FALSE, FALSE))

ReadFile ==
  \E path \in ReadArgs :
    Becomes(readFile(FS, path),
            Call("readFile", path, <<>>, "", FALSE, FALSE))

CreateDirectory ==
  \E path \in MkdirArgs, recursive \in BOOLEAN :
    Becomes(createDirectory(FS, path, recursive),
            Call("createDirectory", path, <<>>, "", recursive, FALSE))

CreateFile ==
  \E path \in CreateArgs, content \in CreateContentArgs, force \in BOOLEAN :
    Becomes(createFile(FS, path, content, force),
            Call("createFile", path, <<>>, content, force, FALSE))

WriteFile ==
  \E path \in WriteArgs, content \in WriteContentArgs, append \in BOOLEAN :
    Becomes(writeFile(FS, path, content, append),
            Call("writeFile", path, <<>>, content, append, FALSE))

Delete ==
  \E path \in DeleteArgs, recursive \in BOOLEAN :
    Becomes(delete(FS, path, recursive),
            Call("delete", path, <<>>, "", recursive, FALSE))

Copy ==
  \E sourcePath \in SourceArgs, destPath \in DestArgs, recursive \in BOOLEAN, force \in BOOLEAN :
    Becomes(copy(FS, sourcePath, destPath,
                 [recursive |-> recursive, force |-> force, preserveTimestamps |-> FALSE]),
            Call("copy", sourcePath, destPath, "", recursive, force))

\* copy with preserveTimestamps
CopyPreserving ==
  \E sourcePath \in SourceArgs, destPath \in DestArgs :
    Becomes(copy(FS, sourcePath, destPath,
                 [recursive |-> TRUE, force |-> FALSE, preserveTimestamps |-> TRUE]),
            [Call("copy", sourcePath, destPath, "", TRUE, FALSE) EXCEPT !.flag3 = TRUE])

Move ==
  \E sourcePath \in SourceArgs, destPath \in DestArgs :
    Becomes(move(FS, sourcePath, destPath),
            Call("move", sourcePath, destPath, "", FALSE, FALSE))

Next ==
  \/ ChangeDirectory
  \/ ReadFile
  \/ CreateDirectory
  \/ CreateFile
  \/ WriteFile
  \/ Delete
  \/ Copy
  \/ CopyPreserving
  \/ Move

Spec == Init /\ [][Next]_vars

(***************************************************************************)
(* Readers.  listDirectory and stat hand objects to their caller, who may  *)
(* then write to them.  returned holds what the caller got: for            *)
(* listDirectory the references of the listed nodes (the array holds the   *)
(* engine's node objects), for stat the copy and the reference of the node *)
(* whose children array the copy shares.  Between operations a node's      *)
(* reference is its path.                                                  *)
(***************************************************************************)
\* a read operation returns (or throws): the state is as it was, and the
\* caller holds the value returned
Reads(r, call, kind) ==
  /\ calls < MaxCalls
  /\ calls' = calls + 1
  /\ last' = [call EXCEPT !.err = r.err, !.out = r.out]
  /\ returned' = IF r.err = OK THEN [kind |-> kind, value |-> r.out] ELSE NoValue
  /\ UNCHANGED <<nodes, currentWorkingDirectory, blobs, persisted, stack,
                 resolutions, before, seen, initialized, loads, made,
                 commands, handled, theme, history, ui>>

ListDirectory ==
  \E path \in {<<>>, ROOT, WELCOME_REL}, sortBy \in {"name", "size", "date", "type"},
     reverse \in BOOLEAN, showHidden \in BOOLEAN :
    Reads(listDirectory(FS, path, [sortBy |-> sortBy, reverse |-> reverse,
                                   showHidden |-> showHidden]),
          Call("listDirectory", path, <<>>, sortBy, reverse, showHidden), "list")

Stat ==
  \E path \in {USER, WELCOME_REL, NOTES} :
    Reads(stat(FS, path), Call("stat", path, <<>>, "", FALSE, FALSE), "stat")

CreateListed ==
  \E path \in {<<".env">>, <<"b.md">>}, content \in CreateContentArgs :
    Becomes(createFile(FS, path, content, FALSE),
            Call("createFile", path, <<>>, content, FALSE, FALSE))

\* the caller writes to what it was given: `value.size = 2` on the object
\* returned by stat or on the first listed node, or
\* `value.children.push('b.md')` on its children array
MutateReturned ==
  \E field \in {"size", "children"} :
    /\ returned # NoValue
    /\ IF returned.kind = "list"
       THEN /\ returned.value # <<>>
            /\ field \in DOMAIN nodes[returned.value[1]]
            /\ nodes' = IF field = "size"
                        THEN [nodes EXCEPT ![returned.value[1]].size = 2]
                        ELSE [nodes EXCEPT ![returned.value[1]].children = Append(@, "b.md")]
       ELSE /\ field \in DOMAIN returned.value.node
            /\ nodes' = IF field = "size"
                        THEN nodes
                        ELSE [nodes EXCEPT ![returned.value.shares].children = Append(@, "b.md")]
    /\ last' = Call("mutateReturned", <<>>, <<>>, field, FALSE, FALSE)
    /\ returned' = NoValue
    /\ UNCHANGED <<currentWorkingDirectory, blobs, persisted, calls, stack,
                   resolutions, before, seen, initialized, loads, made,
                 commands, handled, theme, history, ui>>

NextRead ==
  \/ CreateDirectory
  \/ CreateListed
  \/ ListDirectory
  \/ Stat
  \/ MutateReturned

SpecRead == Init /\ [][NextRead]_vars

(***************************************************************************)
(* PathUtils on its own.  The argument is a string of at most MaxSegments  *)
(* segments ('.', '..' or a name), each followed by a separator, a         *)
(* backslash or two separators, with or without a leading separator or     *)
(* backslash and a last segment; last holds the call: path the argument,   *)
(* dest the result, out the string the first of two calls was given,       *)
(* content the `from` of resolve.                                          *)
(***************************************************************************)
MaxSegments == 3

IsSeparatorToken(t) == t \in {SEPARATOR, "\\"}
RECURSIVE PathBodies(_)
PathBodies(n) ==
  IF n = 0 THEN {<<>>}
  ELSE LET shorter == PathBodies(n - 1)
       IN shorter \cup
          {<<segment>> \o separators \o body :
             segment \in {".", "..", "a"},
             separators \in {<<SEPARATOR>>, <<"\\">>, <<SEPARATOR, SEPARATOR>>},
             body \in shorter}
PathStrings ==
  {lead \o body \o end :
     lead \in {<<>>, <<SEPARATOR>>, <<"\\">>},
     body \in PathBodies(MaxSegments),
     end \in {<<>>, <<".">>, <<"..">>, <<"a">>}}

InitPath ==
  /\ nodes = createDefaultFileSystem.nodes
  /\ currentWorkingDirectory = createDefaultFileSystem.currentWorkingDirectory
  /\ blobs = [i \in {0} |-> welcomeContent]
  /\ persisted = createDefaultFileSystem
  /\ last \in {Call("argument", path, <<>>, <<>>, FALSE, FALSE) : path \in PathStrings}
  /\ calls = 0
  /\ stack = [t \in Tasks |-> <<>>]
  /\ resolutions = [t \in Tasks |-> {}]
  /\ before = createDefaultFileSystem.nodes
  /\ seen = {}
  /\ initialized = TRUE
  /\ loads = 1
  /\ made = {}
  /\ returned = NoValue
  /\ commands = NoCommands
  /\ handled = 0
  /\ theme = initialState
  /\ history = <<>>
  /\ ui = initialUi

\* a call of PathUtils or resolvePath returns
Computes(call, result) ==
  /\ last' = [call EXCEPT !.dest = result]
  /\ UNCHANGED <<nodes, currentWorkingDirectory, blobs, persisted, calls, stack,
                 resolutions, before, seen, initialized, loads, made, returned,
                 commands, handled, theme, history, ui>>

Normalize ==
  /\ last.op = "argument"
  /\ Computes([last EXCEPT !.op = "normalize"], normalize(last.path))

\* normalize applied to the result of normalize
NormalizeAgain ==
  /\ last.op = "normalize"
  /\ Computes([last EXCEPT !.op = "normalizeAgain", !.path = last.dest, !.out = last.path],
              normalize(last.dest))

Resolve ==
  /\ last.op = "argument"
  /\ Computes([last EXCEPT !.op = "resolve", !.content = USER], resolve(USER, last.path))

ResolvePath ==
  /\ last.op = "argument"
  /\ Computes([last EXCEPT !.op = "resolvePath"], resolvePath(FS, last.path))

NextPath ==
  \/ Normalize
  \/ NormalizeAgain
  \/ Resolve
  \/ ResolvePath

SpecPath == InitPath /\ [][NextPath]_vars

(***************************************************************************)
(* The command registry on its own: commands are registered and names are  *)
(* executed.  last holds the call (path the name, dest the tokens) and     *)
(* returned the outcome of executeCommand.                                 *)
(***************************************************************************)
\* the store and the file system service as the handlers find them
World == [fs |-> FS, theme |-> theme]

\* executeCommand(commandName, args, ctx) settles with outcome; behaviour is
\* what the handler was to do
Executes(outcome, commandName, args, behaviour) ==
  /\ Cardinality(DOMAIN outcome.world.fs.blobs) <= MaxBlobs
  /\ nodes' = Close(outcome.world.fs)
  /\ currentWorkingDirectory' = outcome.world.fs.cwd
  /\ blobs' = outcome.world.fs.blobs
  /\ persisted' = outcome.world.fs.persisted
  /\ theme' = outcome.world.theme
  /\ returned' = [kind |-> "outcome",
                  value |-> [output |-> outcome.output, type |-> outcome.type]]
  /\ handled' = handled + outcome.handled
  /\ last' = Call("executeCommand", <<commandName>>, args, behaviour, FALSE, FALSE)
  /\ calls' = calls + 1
  /\ UNCHANGED <<stack, resolutions, before, seen, initialized, loads, made, commands>>

RegisterCommand ==
  \E command \in {helpCommand, clearCommand, mkdirCommand, themeCommand} :
    /\ commands' = registerCommand(commands, command)
    /\ last' = Call("registerCommand", <<command.name>>, <<>>, "", FALSE, FALSE)
    /\ returned' = NoValue
    /\ UNCHANGED <<nodes, currentWorkingDirectory, blobs, persisted, calls, stack,
                   resolutions, before, seen, initialized, loads, made, handled,
                   theme, history, ui>>

\* the command lines executed: every name without tokens, and
CommandLines ==
  {<<name>> : name \in CommandNames} \cup
  {<<"HELP", "x">>, <<"Mkdir">>, <<"Mkdir", "notes">>,
   <<"theme", "set">>, <<"theme", "set", "light">>, <<"theme", "set", "doesnotexist">>,
   <<"theme", "set", "constructor">>, <<"theme", "set", "neon">>,
   <<"theme", "import", "{neon}">>, <<"theme", "list", "x">>, <<"theme", "x">>}

ExecuteCommand ==
  \E line \in CommandLines, behaviour \in {"string", "undefined", "throws", "rejects"} :
    /\ calls < MaxCalls
    /\ Executes(executeCommand(commands, World, Head(line), Tail(line), behaviour),
                Head(line), Tail(line), behaviour)
    /\ UNCHANGED <<history, ui>>

NextCmd ==
  \/ RegisterCommand
  \/ ExecuteCommand

SpecCmd == Init /\ [][NextCmd]_vars

(***************************************************************************)
(* ArgumentParser.parse on its own.  The definition and the tokens are     *)
(* drawn at the start; last holds the call (path the tokens, content the   *)
(* name of the command whose definition is parsed against) and returned    *)
(* the ParseResult.                                                        *)
(***************************************************************************)
MaxTokens == 3

Tokens == {"set", "list", "dark", "true", "x"}
TokenLists == UNION {[1..n -> Tokens] : n \in 0..MaxTokens}

\* the commands whose args are parsed, by name
Definitions ==
  [c \in {helpCommand, cdCommand, lsCommand, mkdirCommand, touchCommand, themeCommand}
     |-> c.args]

InitParse ==
  /\ nodes = createDefaultFileSystem.nodes
  /\ currentWorkingDirectory = createDefaultFileSystem.currentWorkingDirectory
  /\ blobs = [i \in {0} |-> welcomeContent]
  /\ persisted = createDefaultFileSystem
  /\ last \in {Call("tokens", args, <<>>, command.name, FALSE, FALSE) :
                 args \in TokenLists, command \in DOMAIN Definitions}
  /\ calls = 0
  /\ stack = [t \in Tasks |-> <<>>]
  /\ resolutions = [t \in Tasks |-> {}]
  /\ before = createDefaultFileSystem.nodes
  /\ seen = {}
  /\ initialized = TRUE
  /\ loads = 1
  /\ made = {}
  /\ returned = NoValue
  /\ commands = NoCommands
  /\ handled = 0
  /\ theme = initialState
  /\ history = <<>>
  /\ ui = initialUi

\* the definition the call of last parses against
DefinitionOf(call) ==
  (CHOOSE c \in DOMAIN Definitions : c.name = call.content).args

Parse ==
  /\ last.op = "tokens"
  /\ last' = [last EXCEPT !.op = "parse"]
  /\ returned' = [kind |-> "ParseResult", value |-> parse(last.path, DefinitionOf(last))]
  /\ UNCHANGED <<nodes, currentWorkingDirectory, blobs, persisted, calls, stack,
                 resolutions, before, seen, initialized, loads, made, commands,
                 handled, theme, history, ui>>

\* executeCommand of the same tokens, the command being registered (a path
\* of several words is not among the names of the model)
ParseAndExecute ==
  /\ last.op = "tokens"
  /\ last.content \in {"cd", "touch"} => Len(last.path) <= 1
  /\ LET command == CHOOSE c \in DOMAIN Definitions : c.name = last.content
     IN Executes(executeCommand(registerCommand(commands, command), World,
                                command.name, last.path, "string"),
                 command.name, last.path, "string")
  /\ UNCHANGED <<history, ui>>

NextParse ==
  \/ Parse
  \/ ParseAndExecute

SpecParse == InitParse /\ [][NextParse]_vars

(***************************************************************************)
(* The terminal: command lines executed one after another through          *)
(* executeCommand on the seeded file system, the file system commands      *)
(* being registered.  history holds the lines executed.                    *)
(***************************************************************************)
MaxCommands == 5

RECURSIVE registerAll(_, _)
registerAll(cmds, list) ==
  IF list = <<>> THEN cmds
  ELSE registerAll(registerCommand(cmds, Head(list)), Tail(list))

\* initializeCommands(), for the commands of the model
initializeCommands ==
  registerAll(NoCommands, <<helpCommand, clearCommand, themeCommand, pwdCommand, cdCommand,
                            lsCommand, mkdirCommand, touchCommand>>)

InitTerminal ==
  /\ nodes = createDefaultFileSystem.nodes
  /\ currentWorkingDirectory = createDefaultFileSystem.currentWorkingDirectory
  /\ blobs = [i \in {0} |-> welcomeContent]
  /\ persisted = createDefaultFileSystem
  /\ last = NoCall
  /\ calls = 0
  /\ stack = [t \in Tasks |-> <<>>]
  /\ resolutions = [t \in Tasks |-> {}]
  /\ before = createDefaultFileSystem.nodes
  /\ seen = {}
  /\ initialized = TRUE
  /\ loads = 1
  /\ made = {}
  /\ returned = NoValue
  /\ commands = initializeCommands
  /\ handled = 0
  /\ theme = initialState
  /\ history = <<>>
  /\ ui = initialUi

\* the line is executed and its outcome shown
Enter(line) ==
  /\ Len(history) < MaxCommands
  /\ Executes(executeCommand(commands, World, Head(line), Tail(line), "string"),
              Head(line), Tail(line), "string")
  /\ history' = Append(history, line)
  /\ UNCHANGED ui

Pwd == Enter(<<"pwd">>)
Cd == \E path \in {<<"notes">>, <<"..">>} : Enter(<<"cd">> \o path)
Ls == Enter(<<"ls">>)
Mkdir == Enter(<<"mkdir", "notes">>)
Touch == Enter(<<"touch", "a.txt">>)

NextTerminal ==
  \/ Pwd
  \/ Cd
  \/ Ls
  \/ Mkdir
  \/ Touch

SpecTerminal == InitTerminal /\ [][NextTerminal]_vars

(***************************************************************************)
(* Completion.  The input line is a string and the cursor a position in    *)
(* it; the strings are the model's own, taken apart with SubSeq.  What the *)
(* browser history and the suggestion endpoint answer, and the providers   *)
(* whose getCompletions throws or rejects during the request, are the      *)
(* request's environment.                                                  *)
(***************************************************************************)
\* s.substring(0, n)
substring(s, n) == SubSeq(s, 1, IF n < Len(s) THEN n ELSE Len(s))

\* /\s/ at position i (from 1) of s
isSpace(s, i) == SubSeq(s, i, i) = " "

RECURSIVE trimStart(_)
trimStart(s) ==
  IF Len(s) > 0 /\ isSpace(s, 1) THEN trimStart(SubSeq(s, 2, Len(s))) ELSE s

RECURSIVE trimEnd(_)
trimEnd(s) ==
  IF Len(s) > 0 /\ isSpace(s, Len(s)) THEN trimEnd(SubSeq(s, 1, Len(s) - 1)) ELSE s

trim(s) == trimEnd(trimStart(s))

\* the position of the first space of s at or after i, Len(s) + 1 without
RECURSIVE indexOfSpace(_, _)
indexOfSpace(s, i) ==
  IF i > Len(s) \/ isSpace(s, i) THEN i ELSE indexOfSpace(s, i + 1)

\* s.split(/\s+/) of a trimmed s; ''.split(/\s+/) is ['']
RECURSIVE split(_)
split(s) ==
  LET e == indexOfSpace(s, 1)
  IN IF e > Len(s) THEN <<s>>
     ELSE <<SubSeq(s, 1, e - 1)>> \o split(trimStart(SubSeq(s, e, Len(s))))

\* s.startsWith(prefix), s.endsWith(' '), s.includes(part)
startsWithText(s, prefix) == Len(prefix) <= Len(s) /\ SubSeq(s, 1, Len(prefix)) = prefix
endsWithSpace(s) == Len(s) > 0 /\ isSpace(s, Len(s))
includes(s, part) ==
  \E i \in 1..(Len(s) - Len(part) + 1) : SubSeq(s, i, i + Len(part) - 1) = part

\* name.toLowerCase().startsWith(currentArg.toLowerCase())
matchesPrefix(name, currentArg) ==
  startsWithText(toLowerCase(name), toLowerCase(currentArg))

\* the context parseContext returns for an input that is empty or blank
\* before the cursor, classified as an argument position
emptyContext_argumentPosition(input, cursorPosition) ==
  [input |-> input, cursorPosition |-> cursorPosition, commandName |-> <<>>,
   args |-> <<>>, currentArg |-> "", argIndex |-> 0, isCommandPosition |-> FALSE]

\* the context parseContext returns for an input that is empty or blank
\* before the cursor; commandName is <<>> where the code leaves it
\* undefined and <<name>> otherwise
emptyContext(input, cursorPosition) ==
  [input |-> input, cursorPosition |-> cursorPosition, commandName |-> <<>>,
   args |-> <<>>, currentArg |-> "", argIndex |-> 0, isCommandPosition |-> TRUE]

\* AutocompleteService.parseContext
parseContext(input, cursorPosition) ==
  LET beforeCursor == substring(input, cursorPosition)
      parts == split(trim(beforeCursor))
      isAfterSpace == endsWithSpace(beforeCursor)
      args == Tail(parts)
  IN IF trim(beforeCursor) = "" \/ Len(parts) = 0
     THEN emptyContext(input, cursorPosition)
     ELSE IF Len(parts) = 1 /\ ~isAfterSpace
     THEN [input |-> input, cursorPosition |-> cursorPosition, commandName |-> <<>>,
           args |-> <<>>, currentArg |-> parts[1], argIndex |-> 0,
           isCommandPosition |-> TRUE]
     ELSE IF isAfterSpace
     THEN [input |-> input, cursorPosition |-> cursorPosition,
           commandName |-> <<parts[1]>>, args |-> args, currentArg |-> "",
           argIndex |-> Len(args), isCommandPosition |-> FALSE]
     ELSE [input |-> input, cursorPosition |-> cursorPosition,
           commandName |-> <<parts[1]>>, args |-> args,
           currentArg |-> IF Len(args) > 0 THEN args[Len(args)] ELSE "",
           argIndex |-> Len(args) - 1, isCommandPosition |-> FALSE]

\* Array.prototype.sort() of the distinct strings of a set: the strings the
\* providers sort, in the order of their code units
SortOrder ==
  <<"?", "cd", "clear", "cls", "dark", "dir", "help", "light", "ls", "matrix", "mkdir",
    "neon", "pwd", "retro", "theme", "touch">>
sortStrings(strings) == SelectSeq(SortOrder, LAMBDA s : s \in strings)

\* what a provider's getCompletions gives: the array, or the exception
Completions(completions) == [thrown |-> FALSE, completions |-> completions]
Thrown == [thrown |-> TRUE, completions |-> <<>>]

\* the names and aliases of Object.values(commands)
commandNames(cmds) ==
  UNION {{cmds[key].name} \cup {cmds[key].aliases[i] : i \in DOMAIN cmds[key].aliases} :
         key \in {k \in DOMAIN cmds : cmds[k] # undefined}}

\* commands[key] !== undefined
commandExists(cmds, key) ==
  IF key \in DOMAIN cmds /\ cmds[key] # undefined THEN TRUE
  ELSE ObjectPrototype(key) # undefined

commandCompletionProvider == [name |-> "commands", priority |-> 100]
domainCompletionProvider == [name |-> "domains", priority |-> 50]
\* the providers below have no priority: `provider.priority || 0` is 0
fileCompletionProvider == [name |-> "files", priority |-> 0]
themeCompletionProvider == [name |-> "themes", priority |-> 0]
searchEngineCompletionProvider == [name |-> "searchEngines", priority |-> 0]
configCompletionProvider == [name |-> "config", priority |-> 0]
booleanCompletionProvider == [name |-> "boolean", priority |-> 0]
urlCompletionProvider == [name |-> "urls", priority |-> 0]
googleSuggestionsProvider == [name |-> "googleSuggestions", priority |-> 30]

completionProviders ==
  <<commandCompletionProvider, domainCompletionProvider, fileCompletionProvider,
    themeCompletionProvider, searchEngineCompletionProvider, configCompletionProvider,
    booleanCompletionProvider, urlCompletionProvider, googleSuggestionsProvider>>

\* provider.canComplete(context)
canComplete(provider, context, env) ==
  CASE provider.name = "commands" -> context.isCommandPosition
    [] provider.name = "domains" ->
         /\ context.isCommandPosition
         /\ Len(context.currentArg) >= 2
         /\ ~includes(context.input, " ")
    [] provider.name = "files" -> ~context.isCommandPosition
    [] provider.name = "themes" ->
         /\ context.commandName = <<"theme">>
         /\ Len(context.args) > 0
         /\ context.args[1] \in {"set", "export"}
    [] provider.name = "searchEngines" ->
         /\ context.commandName = <<"search-config">>
         /\ Len(context.args) > 0
         /\ context.args[1] = "engine"
    [] provider.name = "config" -> context.commandName = <<"config">>
    [] provider.name = "boolean" ->
         \E letter \in {"t", "f", "y", "n"} :
           startsWithText(toLowerCase(context.currentArg), letter)
    [] provider.name = "urls" ->
         \/ context.commandName = <<"open">>
         \/ /\ context.commandName = <<"config">>
            /\ Len(context.args) >= 2
            /\ context.args[1] = "background"
            /\ context.args[2] = "image"
    [] provider.name = "googleSuggestions" ->
         /\ includes(context.input, " ")
         /\ Len(trim(context.input)) >= 3
         /\ LET trimmed == trim(context.input)
                firstWord == toLowerCase(SubSeq(trimmed, 1, indexOfSpace(trimmed, 1) - 1))
            IN ~commandExists(env.commands, firstWord)

\* items.slice(0, n)
slice(items, n) == SubSeq(items, 1, IF n < Len(items) THEN n ELSE Len(items))

\* domainService.getDomainSuggestions(input, 5): the domains of the history
\* that contain the search term, most visited first
getDomainSuggestions(env, input) ==
  IF input = "" \/ trim(input) = "" \/ Len(input) < 2 THEN <<>>
  ELSE slice(SelectSeq(env.domains,
                       LAMBDA domain : includes(domain, trim(toLowerCase(input)))), 5)

\* fetchGoogleSuggestions(query): data[1].slice(0, 5) without its empty
\* suggestions
fetchGoogleSuggestions(env, query) ==
  SelectSeq(slice(env.google, 5), LAMBDA suggestion : Len(trim(suggestion)) > 0)

\* the loop of fileCompletionProvider over the items
RECURSIVE fileCompletions(_, _, _)
fileCompletions(fs, items, filePrefix) ==
  IF items = <<>> THEN <<>>
  ELSE LET item == fs.heap[Head(items)]
           rest == fileCompletions(fs, Tail(items), filePrefix)
       IN IF ~matchesPrefix(item.name, filePrefix) THEN rest
          ELSE <<IF item.type = "directory" THEN item.name \o "/" ELSE item.name>> \o rest

\* the filters of configCompletionProvider, searchEngineCompletionProvider
\* and booleanCompletionProvider
filterPrefix(list, currentArg) ==
  SelectSeq(list, LAMBDA s : matchesPrefix(s, currentArg))

commonUrls ==
  <<"github.com", "stackoverflow.com", "google.com", "youtube.com", "reddit.com",
    "twitter.com", "facebook.com", "linkedin.com", "wikipedia.org", "mozilla.org">>

\* provider.getCompletions(context).  The current argument of the file
\* provider holds no '/': the directory searched is the current one
providerCompletions(provider, context, env) ==
  CASE provider.name = "commands" ->
         sortStrings({name \in commandNames(env.commands) :
                 matchesPrefix(name, context.currentArg)})
    [] provider.name = "domains" -> getDomainSuggestions(env, context.currentArg)
    [] provider.name = "files" ->
         LET r == listDirectory(env.fs, env.fs.cwd,
                                [showHidden |-> startsWithText(context.currentArg, "."),
                                 sortBy |-> "name", reverse |-> FALSE])
         IN IF r.err # OK THEN <<>>
            ELSE fileCompletions(r.fs, r.out, context.currentArg)
    [] provider.name = "themes" ->
         sortStrings({name \in presetThemes \cup env.theme.customThemes :
                 matchesPrefix(name, context.currentArg)})
    [] provider.name = "searchEngines" ->
         filterPrefix(<<"google", "bing", "duckduckgo", "yahoo">>, context.currentArg)
    [] provider.name = "config" ->
         IF context.argIndex = 0
         THEN filterPrefix(<<"background", "terminal", "show">>, context.currentArg)
         ELSE IF context.argIndex = 1 /\ context.args[1] = "background"
         THEN filterPrefix(<<"image", "brightness", "blur">>, context.currentArg)
         ELSE IF context.argIndex = 1 /\ context.args[1] = "terminal"
         THEN filterPrefix(<<"live-suggestions">>, context.currentArg)
         ELSE <<>>
    [] provider.name = "boolean" ->
         filterPrefix(<<"true", "false", "yes", "no">>, context.currentArg)
    [] provider.name = "urls" ->
         LET matching == SelectSeq(commonUrls, LAMBDA url :
                                     includes(url, toLowerCase(context.currentArg)))
         IN [i \in DOMAIN matching |->
               IF startsWithText(context.currentArg, "http")
               THEN "https://" \o matching[i] ELSE matching[i]]
    [] provider.name = "googleSuggestions" ->
         fetchGoogleSuggestions(env, trim(context.input))

getCompletionsOf(provider, context, env) ==
  IF provider.name \in env.failing THEN Thrown
  ELSE Completions(providerCompletions(provider, context, env))

\* [...providers].sort((a, b) => (b.priority || 0) - (a.priority || 0)): the
\* sort is stable
RECURSIVE insertProvider(_, _)
insertProvider(sorted, provider) ==
  IF sorted = <<>> THEN <<provider>>
  ELSE IF Head(sorted).priority < provider.priority THEN <<provider>> \o sorted
  ELSE <<Head(sorted)>> \o insertProvider(Tail(sorted), provider)

RECURSIVE sortProviders(_)
sortProviders(providers) ==
  IF providers = <<>> THEN <<>>
  ELSE insertProvider(sortProviders(SubSeq(providers, 1, Len(providers) - 1)),
                      providers[Len(providers)])

\* getCompletionsByProvider without the try and catch around getCompletions
RECURSIVE byProviderLoop_withoutCatch(_, _, _)
byProviderLoop_withoutCatch(sortedProviders, context, env) ==
  IF sortedProviders = <<>> THEN [rejected |-> FALSE, entries |-> <<>>]
  ELSE LET provider == Head(sortedProviders)
           r == getCompletionsOf(provider, context, env)
           rest == byProviderLoop_withoutCatch(Tail(sortedProviders), context, env)
       IN IF ~canComplete(provider, context, env) THEN rest
          ELSE IF r.thrown THEN [rejected |-> TRUE, entries |-> <<>>]
          ELSE IF Len(r.completions) > 0
          THEN [rest EXCEPT !.entries = <<[provider |-> provider.name,
                                           completions |-> r.completions]>> \o @]
          ELSE rest

\* the loop of getCompletionsByProvider over sortedProviders: rejected says
\* whether the promise it returns rejects
RECURSIVE byProviderLoop(_, _, _)
byProviderLoop(sortedProviders, context, env) ==
  IF sortedProviders = <<>> THEN [rejected |-> FALSE, entries |-> <<>>]
  ELSE LET provider == Head(sortedProviders)
           r == getCompletionsOf(provider, context, env)
           rest == byProviderLoop(Tail(sortedProviders), context, env)
       IN IF ~canComplete(provider, context, env) THEN rest
          ELSE IF r.thrown THEN rest
          ELSE IF Len(r.completions) > 0
          THEN [rest EXCEPT !.entries = <<[provider |-> provider.name,
                                           completions |-> r.completions]>> \o @]
          ELSE rest

getCompletionsByProvider(providers, context, env) ==
  byProviderLoop(sortProviders(providers), context, env)

\* the loops of getCompletionsFromProviders without the seen set
RECURSIVE combine_withoutSeen(_, _)
combine_withoutSeen(allCompletions, completions) ==
  IF completions = <<>> THEN allCompletions
  ELSE combine_withoutSeen(Append(allCompletions, Head(completions)), Tail(completions))

\* the inner loop of getCompletionsFromProviders: seen holds what
\* allCompletions holds
RECURSIVE combine(_, _)
combine(allCompletions, completions) ==
  IF completions = <<>> THEN allCompletions
  ELSE combine(IF \E i \in DOMAIN allCompletions : allCompletions[i] = Head(completions)
               THEN allCompletions
               ELSE Append(allCompletions, Head(completions)),
               Tail(completions))

RECURSIVE combineAll(_, _)
combineAll(allCompletions, entries) ==
  IF entries = <<>> THEN allCompletions
  ELSE combineAll(combine(allCompletions, Head(entries).completions), Tail(entries))

getCompletionsFromProviders(providers, context, env) ==
  LET completionsByProvider == getCompletionsByProvider(providers, context, env)
  IN [rejected |-> completionsByProvider.rejected,
      entries |-> completionsByProvider.entries,
      completions |-> combineAll(<<>>, completionsByProvider.entries)]

\* AutocompleteService.getCompletions(input, cursorPosition): the context,
\* what each provider gave, the merged list and the fields of the result
\* computed from the filtered list (commonPrefix and the replacement range
\* are functions of the same list and of the input, and are left out).
\* rejected says whether the promise rejects
getCompletions(input, cursorPosition, env) ==
  LET context == parseContext(input, cursorPosition)
      merged == getCompletionsFromProviders(completionProviders, context, env)
      filtered == SelectSeq(merged.completions,
                            LAMBDA completion : matchesPrefix(completion, context.currentArg))
  IN [rejected |-> merged.rejected, context |-> context, entries |-> merged.entries,
      merged |-> merged.completions, completions |-> filtered,
      hasMultiple |-> Len(filtered) > 1, originalInput |-> input,
      cursorPosition |-> cursorPosition]

(***************************************************************************)
(* Completion requests on the terminal: between command lines that change  *)
(* the working directory's entries, getCompletions is called with an input *)
(* and a cursor position.                                                  *)
(***************************************************************************)
Inputs ==
  {"", " ", "th", "Th", "t", "theme set d", "foo ", "foo w", "ls t", "open hub",
   "config b"}

\* the cursor is at the start of the input, after its second character or
\* at its end
Cursors(input) == {c \in {0, 2, Len(input)} : c <= Len(input)}

\* what the services answer during a request: nothing, or a history with
\* two hosts and five suggestions for the query, one empty and one twice
Answers ==
  {[domains |-> <<>>, google |-> <<>>],
   [domains |-> <<"theme", "the.dev">>,
    google |-> <<"foo x", "", "foo x", "foo y", "foo z">>]}
Failing == {{}, {"commands"}, {"files"}}

Env(domains, google, failing) ==
  [fs |-> FS, commands |-> commands, theme |-> theme, domains |-> domains,
   google |-> google, failing |-> failing]

Complete ==
  \E input \in Inputs, answers \in Answers, failing \in Failing :
    \E cursorPosition \in Cursors(input) :
      /\ calls < MaxCalls
      /\ returned' = [kind |-> "completions",
                      value |-> getCompletions(input, cursorPosition,
                                               Env(answers.domains, answers.google,
                                                   failing)),
                      domains |-> answers.domains, google |-> answers.google,
                      failing |-> failing]
      /\ last' = Call("getCompletions", <<>>, <<>>, input, FALSE, FALSE)
      /\ calls' = calls + 1
      /\ UNCHANGED <<nodes, currentWorkingDirectory, blobs, persisted, stack, resolutions,
                     before, seen, initialized, loads, made, commands, handled, theme,
                     history, ui>>

TouchTrue == Enter(<<"touch", "true">>)

NextComplete ==
  \/ Complete
  \/ Mkdir
  \/ TouchTrue

SpecComplete == InitTerminal /\ [][NextComplete]_vars

(***************************************************************************)
(* Overlapping calls.  The host is single-threaded: a call runs until it   *)
(* awaits the key-value store (storage.getItem, setItem, removeItem), and  *)
(* while it waits another caller's call may run up to its own await.  An   *)
(* await of a promise that is already settled (ensureInitialized once      *)
(* initialized, getStats) lets in no call that waits for the store, so a   *)
(* step runs a task from one store await to the next.                      *)
(*                                                                         *)
(* A task's stack holds the frames of the async functions it is in, the    *)
(* innermost last.  A frame keeps the arguments, the label pc at which the *)
(* function resumes, and its locals: resolved and resolvedDest (the paths  *)
(* resolvePath gave), i (the position of the for-of iterator), value (the  *)
(* value the awaited call returned) and contentId.  The node a function    *)
(* captured is denoted by its path: between the awaits of one operation no *)
(* other task replaces or removes a node.                                  *)
(***************************************************************************)
MaxAsyncCalls == 3

\* `private state: FileSystemState | null = null`, and the store's answer
\* when nothing is saved under the key: the state with no node at all
NoState == [nodes |-> <<>>, currentWorkingDirectory |-> <<>>]

Frame(fn, path, dest, content, flag, flag2) ==
  [fn |-> fn, pc |-> "start", path |-> path, dest |-> dest, content |-> content,
   flag |-> flag, flag2 |-> flag2, resolved |-> <<>>, resolvedDest |-> <<>>,
   i |-> 1, value |-> "", contentId |-> 0, savedState |-> NoState,
   preserveTimestamps |-> FALSE]

\* A machine m is a task in the middle of a step: the state in open form,
\* the task's stack and resolutions, whether it has reached a store await,
\* and the error thrown or value returned once the stack is empty.
Top(m) == m.stack[Len(m.stack)]
SetTop(m, f) == [m EXCEPT !.stack[Len(m.stack)] = f]
\* continue at label pc of the same function
Goto(m, f, pc) == SetTop(m, [f EXCEPT !.pc = pc])
\* `await storage...`: the store's effect is in fs; resume at pc
Park(m, fs, f, pc) == [SetTop(m, [f EXCEPT !.pc = pc]) EXCEPT !.fs = fs, !.parked = TRUE]
\* `await this.callee(...)`: resume at pc when the callee returns
CallFn(m, f, pc, callee) == [m EXCEPT !.stack = Append(SetTop(m, [f EXCEPT !.pc = pc]).stack, callee)]
\* return: the caller's await yields value
Ret(m, value) ==
  LET rest == SubSeq(m.stack, 1, Len(m.stack) - 1)
  IN IF rest = <<>> THEN [m EXCEPT !.stack = <<>>, !.out = value]
     ELSE [m EXCEPT !.stack = [rest EXCEPT ![Len(rest)].value = value]]
\* throw: no function of the service catches, so the whole call rejects
Raise(m, e) == [m EXCEPT !.stack = <<>>, !.err = e]
\* this.resolvePath(path) gave resolvedPath
Resolved(m, path, resolvedPath) == [m EXCEPT !.res = @ \cup {<<path, resolvedPath>>}]

\* readFile up to its await of storage.getItem, and from it
readFileStep(m, f) ==
  IF f.pc = "start"
  THEN Const(resolvePath(m.fs, f.path), LAMBDA resolvedPath :
       Const(Resolved(m, f.path, resolvedPath), LAMBDA m1 :
          IF ~Has(m.fs, resolvedPath) THEN Raise(m1, ENOENT)
          ELSE LET node == Obj(m.fs, resolvedPath)
               IN IF node.type # "file" THEN Raise(m1, EISDIR)
                  ELSE IF "contentId" \notin DOMAIN node THEN Ret(m1, "")
                  ELSE Park(m1, m.fs, [f EXCEPT !.resolved = resolvedPath,
                                                !.contentId = node.contentId], "getItem")))
  ELSE Ret(m, IF f.contentId \in DOMAIN m.fs.blobs THEN m.fs.blobs[f.contentId] ELSE "")

\* createFile: to the await of storage.setItem, to the await of saveState,
\* and the return
createFileStep(m, f) ==
  IF f.pc = "start"
  THEN Const(resolvePath(m.fs, f.path), LAMBDA resolvedPath :
       Const(Resolved(m, f.path, resolvedPath), LAMBDA m1 :
       LET parentPath == parseInfo(resolvedPath).parent
       IN IF validatePath(resolvedPath) # OK THEN Raise(m1, EINVAL)
          ELSE IF Has(m.fs, resolvedPath) /\ ~f.flag THEN Raise(m1, EEXIST)
          ELSE IF ~Has(m.fs, parentPath) THEN Raise(m1, ENOENT)
          ELSE IF Obj(m.fs, parentPath).type # "directory" THEN Raise(m1, ENOTDIR)
          ELSE IF checkStorageLimit(m.fs, Len(f.content)) THEN Raise(m1, ENOSPC)
          ELSE LET contentId == NewContentId(m.fs)
               IN Park(m1, SetBlob(m.fs, contentId, f.content),
                       [f EXCEPT !.resolved = resolvedPath, !.contentId = contentId],
                       "setItem")))
  ELSE IF f.pc = "setItem"
  THEN LET pathInfo == parseInfo(f.resolved)
           node == [name |-> pathInfo.basename, type |-> "file",
                    path |-> f.resolved, parent |-> pathInfo.parent,
                    size |-> Len(f.content), createdAt |-> m.fs.now,
                    modifiedAt |-> m.fs.now, extension |-> pathInfo.extension,
                    contentId |-> f.contentId]
           stored == SetNode(m.fs, f.resolved, node)
       IN Park(m, saveState(registerInParent(stored, pathInfo.parent, pathInfo.basename, TRUE)),
               f, "saveState")
  ELSE Ret(m, "")

\* writeFile; value holds finalContent from the label "haveContent" on
writeFileStep(m, f) ==
  IF f.pc = "start"
  THEN Const(resolvePath(m.fs, f.path), LAMBDA resolvedPath :
       Const(Resolved(m, f.path, resolvedPath), LAMBDA m1 :
       LET f1 == [f EXCEPT !.resolved = resolvedPath, !.value = f.content]
       IN IF Has(m.fs, resolvedPath)
          THEN IF Obj(m.fs, resolvedPath).type # "file" THEN Raise(m1, EISDIR)
               ELSE IF f.flag
                    THEN CallFn(m1, f1, "read", Frame("readFile", f.path, <<>>, "", FALSE, FALSE))
                    ELSE Goto(m1, f1, "haveContent")
          ELSE CallFn(m1, f1, "created",
                      Frame("createFile", f.path, <<>>, f.content, FALSE, FALSE))))
  ELSE IF f.pc = "read"
  THEN Goto(m, [f EXCEPT !.value = f.value \o f.content], "haveContent")
  ELSE IF f.pc = "haveContent"
  THEN LET node == Obj(m.fs, f.resolved)
       IN IF checkStorageLimit(m.fs, Len(f.value) - node.size) THEN Raise(m, ENOSPC)
          ELSE LET contentId == IF "contentId" \in DOMAIN node
                                THEN node.contentId ELSE NewContentId(m.fs)
               IN Park(m, SetBlob(m.fs, contentId, f.value),
                       [f EXCEPT !.contentId = contentId], "setItem")
  ELSE IF f.pc = "setItem"
  THEN LET ref == m.fs.index[f.resolved]
           node == m.fs.heap[ref]
           updated == [n \in DOMAIN node \cup {"contentId"} |->
                         IF n = "size" THEN Len(f.value)
                         ELSE IF n = "modifiedAt" THEN m.fs.now
                         ELSE IF n = "contentId" THEN f.contentId
                         ELSE node[n]]
       IN Park(m, saveState([m.fs EXCEPT !.heap[ref] = updated]), f, "saveState")
  ELSE Ret(m, "")

\* delete; at "loop" the iterator reads position i of the live children
deleteStep(m, f) ==
  IF f.pc = "start"
  THEN Const(resolvePath(m.fs, f.path), LAMBDA resolvedPath :
       Const(Resolved(m, f.path, resolvedPath), LAMBDA m1 :
       LET f1 == [f EXCEPT !.resolved = resolvedPath]
       IN IF ~Has(m.fs, resolvedPath) THEN Raise(m1, ENOENT)
          ELSE LET node == Obj(m.fs, resolvedPath)
               IN IF node.type = "directory"
                  THEN IF Len(node.children) > 0 /\ ~f.flag THEN Raise(m1, ENOTEMPTY)
                       ELSE Goto(m1, f1, "loop")
                  ELSE IF "contentId" \in DOMAIN node
                       THEN Park(m1, RemoveBlob(m.fs, node.contentId), f1, "detach")
                       ELSE Goto(m1, f1, "detach")))
  ELSE IF f.pc = "loop"
  THEN LET children == Obj(m.fs, f.resolved).children
       IN IF f.i > Len(children) THEN Goto(m, f, "detach")
          ELSE CallFn(m, [f EXCEPT !.i = @ + 1], "loop",
                      Frame("delete", join(f.resolved, ToPath(children[f.i])),
                            <<>>, "", TRUE, FALSE))
  ELSE IF f.pc = "detach"
  THEN Park(m, deleteNode(m.fs, f.resolved, m.fs.index[f.resolved]).fs, f, "saveState")
  ELSE Ret(m, "")

createDirectoryStep(m, f) ==
  IF f.pc = "start"
  THEN Const(resolvePath(m.fs, f.path), LAMBDA resolvedPath :
       Const(Resolved(m, f.path, resolvedPath), LAMBDA m1 :
       LET parentPath == parseInfo(resolvedPath).parent
           f1 == [f EXCEPT !.resolved = resolvedPath]
       IN IF validatePath(resolvedPath) # OK THEN Raise(m1, EINVAL)
          ELSE IF Has(m.fs, resolvedPath) THEN Raise(m1, EEXIST)
          ELSE IF ~Has(m.fs, parentPath)
               THEN IF ~f.flag THEN Raise(m1, ENOENT)
                    ELSE IF parentPath = resolvedPath THEN Raise(m1, DIVERGES)
                    ELSE CallFn(m1, f1, "create",
                                Frame("createDirectory", parentPath, <<>>, "", TRUE, FALSE))
          ELSE IF Obj(m.fs, parentPath).type # "directory" THEN Raise(m1, ENOTDIR)
          ELSE Goto(m1, f1, "create")))
  ELSE IF f.pc = "create"
  THEN LET pathInfo == parseInfo(f.resolved)
           node == [name |-> pathInfo.basename, type |-> "directory",
                    path |-> f.resolved, parent |-> pathInfo.parent,
                    size |-> 0, createdAt |-> m.fs.now, modifiedAt |-> m.fs.now,
                    children |-> <<>>]
           stored == SetNode(m.fs, f.resolved, node)
       IN Park(m, saveState(registerInParent(stored, pathInfo.parent, pathInfo.basename, FALSE)),
               f, "saveState")
  ELSE Ret(m, "")

\* copy; flag is options.recursive and flag2 options.force
copyStep(m, f) ==
  IF f.pc = "start"
  THEN Const(resolvePath(m.fs, f.path), LAMBDA resolvedSource :
       Const(resolvePath(m.fs, f.dest), LAMBDA resolvedDest :
       Const(Resolved(Resolved(m, f.path, resolvedSource), f.dest, resolvedDest), LAMBDA m1 :
       LET f1 == [f EXCEPT !.resolved = resolvedSource, !.resolvedDest = resolvedDest]
       IN IF ~Has(m.fs, resolvedSource) THEN Raise(m1, ENOENT)
          ELSE IF Has(m.fs, resolvedDest) /\ ~f.flag2 THEN Raise(m1, EEXIST)
          ELSE IF Obj(m.fs, resolvedSource).type = "file"
               THEN CallFn(m1, f1, "read", Frame("readFile", f.path, <<>>, "", FALSE, FALSE))
          ELSE IF ~f.flag THEN Raise(m1, EISDIR)
          ELSE CallFn(m1, f1, "loop", Frame("createDirectory", f.dest, <<>>, "", FALSE, FALSE)))))
  ELSE IF f.pc = "read"
  THEN CallFn(m, f, "created", Frame("createFile", f.dest, <<>>, f.value, f.flag2, FALSE))
  ELSE IF f.pc = "loop"
  THEN LET children == Obj(m.fs, f.resolved).children
       IN IF f.i > Len(children) THEN Park(m, saveState(m.fs), f, "saveState")
          ELSE CallFn(m, [f EXCEPT !.i = @ + 1], "loop",
                      [Frame("copy", join(f.resolved, ToPath(children[f.i])),
                             join(f.resolvedDest, ToPath(children[f.i])), "", f.flag, f.flag2)
                         EXCEPT !.preserveTimestamps = f.preserveTimestamps])
  ELSE IF f.pc = "created"
  THEN Park(m, saveState(restamp(m.fs, f.resolvedDest, m.fs.index[f.resolved],
                                 [preserveTimestamps |-> f.preserveTimestamps])),
            f, "saveState")
  ELSE Ret(m, "")

moveStep(m, f) ==
  IF f.pc = "start"
  THEN CallFn(m, f, "copied", Frame("copy", f.path, f.dest, "", TRUE, TRUE))
  ELSE IF f.pc = "copied"
  THEN CallFn(m, f, "deleted", Frame("delete", f.path, <<>>, "", TRUE, FALSE))
  ELSE Ret(m, "")

changeDirectoryStep(m, f) ==
  IF f.pc = "start"
  THEN Const(resolvePath(m.fs, f.path), LAMBDA resolvedPath :
       Const(Resolved(m, f.path, resolvedPath), LAMBDA m1 :
          IF ~Has(m.fs, resolvedPath) THEN Raise(m1, ENOENT)
          ELSE IF Obj(m.fs, resolvedPath).type # "directory" THEN Raise(m1, ENOTDIR)
          ELSE Park(m1, saveState([m.fs EXCEPT !.cwd = resolvedPath]), f, "saveState")))
  ELSE Ret(m, "")

\* this.state = value
SetState(fs, value) ==
  [fs EXCEPT !.index = [p \in DOMAIN value.nodes |-> p],
             !.heap = value.nodes,
             !.cwd = value.currentWorkingDirectory,
             !.loads = @ + 1]

\* initialize: to the await of storage.getItem, whose answer is the state
\* saved when the request was made; from it either the assignment of the
\* saved state, or createDefaultFileSystem to its await of storage.setItem,
\* the assignment of the default state and the await of saveState; then
\* this.initialized = true
initializeStep(m, f) ==
  IF f.pc = "start"
  THEN IF m.fs.initialized THEN Ret(m, "")
       ELSE Park(m, m.fs, [f EXCEPT !.savedState = m.fs.persisted], "getItem")
  ELSE IF f.pc = "getItem"
  THEN IF f.savedState # NoState
       THEN Ret([m EXCEPT !.fs = [SetState(m.fs, f.savedState) EXCEPT !.initialized = TRUE]], "")
       ELSE Park(m, SetBlob(m.fs, 0, welcomeContent), f, "setItem")
  ELSE IF f.pc = "setItem"
  THEN Park(m, saveState(SetState(m.fs, createDefaultFileSystem)), f, "saveState")
  ELSE Ret([m EXCEPT !.fs.initialized = TRUE], "")

ensureInitializedStep(m, f) ==
  IF f.pc = "start"
  THEN IF ~m.fs.initialized
       THEN CallFn(m, f, "initialized", Frame("initialize", <<>>, <<>>, "", FALSE, FALSE))
       ELSE Ret(m, "")
  ELSE Ret(m, "")

\* the innermost function runs to its next await, call, return or throw
Micro(m) ==
  LET f == Top(m)
  IN CASE f.fn = "readFile" -> readFileStep(m, f)
       [] f.fn = "createFile" -> createFileStep(m, f)
       [] f.fn = "writeFile" -> writeFileStep(m, f)
       [] f.fn = "delete" -> deleteStep(m, f)
       [] f.fn = "createDirectory" -> createDirectoryStep(m, f)
       [] f.fn = "copy" -> copyStep(m, f)
       [] f.fn = "move" -> moveStep(m, f)
       [] f.fn = "changeDirectory" -> changeDirectoryStep(m, f)
       [] f.fn = "initialize" -> initializeStep(m, f)
       [] f.fn = "ensureInitialized" -> ensureInitializedStep(m, f)

\* the task runs until it awaits the store or its call settles
RECURSIVE Run(_)
Run(m) == IF m.stack = <<>> \/ m.parked THEN m ELSE Run(Micro(m))

\* the arguments of the overlapping calls
AsyncWriteArgs == {WELCOME_REL, NOTES}
AsyncSourceArgs == {WELCOME_REL, TMP}
AsyncDeleteArgs == {USER, NOTES, WELCOME_REL}
AsyncCdArgs == {TMP, USER}

\* the state a step of task t leaves: m is the machine at the store await
\* it reached or at the end of its call; starting tells a call's first step
Settle(t, m, call, starting) ==
     /\ m.err # DIVERGES
     /\ Cardinality(DOMAIN m.fs.blobs) <= MaxBlobs
     /\ nodes' = Close(m.fs)
     /\ currentWorkingDirectory' = m.fs.cwd
     /\ blobs' = m.fs.blobs
     /\ persisted' = m.fs.persisted
     /\ initialized' = m.fs.initialized
     /\ loads' = m.fs.loads
     /\ made' = IF m.stack = <<>> /\ m.err = OK /\ call.fn \in {"createDirectory", "createFile"}
                THEN made \cup {resolvePath(m.fs, call.path)}
                ELSE made
     /\ UNCHANGED <<returned, commands, handled, theme, history, ui>>
     /\ stack' = [stack EXCEPT ![t] = m.stack]
     /\ resolutions' = [resolutions EXCEPT ![t] = m.res]
     /\ last' = IF m.stack = <<>>
                THEN [Call(call.fn, call.path, call.dest, call.content, call.flag, call.flag2)
                        EXCEPT !.err = m.err, !.out = m.out]
                ELSE last
     /\ before' = IF t = "op" /\ starting THEN nodes ELSE before
     /\ seen' = IF t # "op" THEN seen
                ELSE (IF starting THEN {} ELSE seen)
                       \cup (IF m.stack = <<>> THEN {} ELSE {Close(m.fs)})

Step(t, frames, res, starting) ==
  Settle(t, Run([fs |-> FS, stack |-> frames, res |-> res,
                 parked |-> FALSE, err |-> OK, out |-> ""]), frames[1], starting)

\* task t calls the function of frame
Start(t, frame) ==
  /\ stack[t] = <<>>
  /\ calls < MaxAsyncCalls
  /\ calls' = calls + 1
  /\ Step(t, <<frame>>, {}, TRUE)

StartWriteFile ==
  \E path \in AsyncWriteArgs, append \in BOOLEAN :
    Start("op", Frame("writeFile", path, <<>>, "x", append, FALSE))

StartCopy ==
  \E sourcePath \in AsyncSourceArgs, force \in BOOLEAN :
    Start("op", Frame("copy", sourcePath, NOTES, "", TRUE, force))

StartMove ==
  \E sourcePath \in AsyncSourceArgs :
    Start("op", Frame("move", sourcePath, NOTES, "", FALSE, FALSE))

StartDelete ==
  \E path \in AsyncDeleteArgs, recursive \in BOOLEAN :
    Start("op", Frame("delete", path, <<>>, "", recursive, FALSE))

StartChangeDirectory ==
  \E path \in AsyncCdArgs :
    Start("cd", Frame("changeDirectory", path, <<>>, "", FALSE, FALSE))

\* the store settles the promise a task awaits
Resume ==
  \E t \in Tasks :
    /\ stack[t] # <<>>
    /\ UNCHANGED calls
    /\ Step(t, stack[t], resolutions[t], FALSE)

NextAsync ==
  \/ StartWriteFile
  \/ StartCopy
  \/ StartMove
  \/ StartDelete
  \/ StartChangeDirectory
  \/ Resume

SpecAsync == Init /\ [][NextAsync]_vars

(***************************************************************************)
(* The terminal's input line: typing, the completion keys, the debounce    *)
(* timer of the live suggestions and the completion requests in flight.    *)
(* The component is in command mode with live suggestions enabled; the     *)
(* caret is at the end of the input.  State setters take effect when the   *)
(* handler returns, so a handler reads the values of its render.           *)
(***************************************************************************)
MaxRequests == 1

\* what is typed or left in the input by one change event
UiInputs == {"", "t", "th"}

\* AutocompleteService.findWordStart, findWordEnd (positions from 0)
RECURSIVE findWordStart(_, _)
findWordStart(input, cursorPosition) ==
  IF cursorPosition > 0 /\ cursorPosition <= Len(input) /\ ~isSpace(input, cursorPosition)
  THEN findWordStart(input, cursorPosition - 1)
  ELSE IF cursorPosition > Len(input) /\ Len(input) > 0
       THEN findWordStart(input, cursorPosition - 1)
       ELSE cursorPosition

RECURSIVE findWordEnd(_, _)
findWordEnd(input, cursorPosition) ==
  IF cursorPosition < Len(input) /\ ~isSpace(input, cursorPosition + 1)
  THEN findWordEnd(input, cursorPosition + 1)
  ELSE cursorPosition

\* AutocompleteService.findCommonPrefix
RECURSIVE shortenPrefix(_, _)
shortenPrefix(prefix, completion) ==
  IF prefix # "" /\ ~matchesPrefix(completion, prefix)
  THEN shortenPrefix(SubSeq(prefix, 1, Len(prefix) - 1), completion)
  ELSE prefix

RECURSIVE commonPrefixLoop(_, _, _)
commonPrefixLoop(completions, i, prefix) ==
  IF i > Len(completions) THEN prefix
  ELSE commonPrefixLoop(completions, i + 1, shortenPrefix(prefix, completions[i]))

findCommonPrefix(completions) ==
  IF Len(completions) = 0 THEN ""
  ELSE IF Len(completions) = 1 THEN completions[1]
  ELSE commonPrefixLoop(completions, 2, completions[1])

\* input.substring(from) and input.substring(0, to)
substringFrom(input, from) == SubSeq(input, from + 1, Len(input))

\* the CompletionResult getCompletions(input, cursorPosition) returns for
\* the filtered list of completions
completionResultOf(input, cursorPosition, completions) ==
  [completions |-> completions,
   commonPrefix |-> findCommonPrefix(completions),
   originalInput |-> input,
   replaceStart |-> findWordStart(input, cursorPosition),
   replaceEnd |-> findWordEnd(input, cursorPosition)]

\* completions[index] of a JavaScript array, "undefined" when concatenated
\* into a string from an index outside the array
elementAt(completions, index) ==
  IF index >= 0 /\ index < Len(completions) THEN completions[index + 1] ELSE "undefined"

\* the input with the range the result names replaced by text
replaced(input, result, text) ==
  substring(input, result.replaceStart) \o text \o substringFrom(input, result.replaceEnd)

\* the four setters that hide both lists
hidden(u) ==
  [u EXCEPT !.showCompletions = FALSE, !.completionResult = null,
            !.showLiveSuggestions = FALSE, !.liveSuggestionResult = null]

\* handleLiveSuggestions(input): an empty or blank input hides the list and
\* returns; otherwise the timer the ref names is cleared and a new one set
handleLiveSuggestions(u, input) ==
  IF trim(input) = ""
  THEN [u EXCEPT !.showLiveSuggestions = FALSE, !.liveSuggestionResult = null]
  ELSE LET cleared == {timer \in u.timers : timer.id # u.liveSuggestionsTimeoutRef}
           id == CHOOSE n \in 1..(Cardinality(cleared) + 1) :
                   /\ \A timer \in cleared : timer.id # n
                   /\ \A m \in 1..(n - 1) : \E timer \in cleared : timer.id = m
       IN [u EXCEPT !.timers = cleared \cup {[id |-> id, input |-> input]},
                    !.liveSuggestionsTimeoutRef = id]

\* handleInputChange(e) with e.target.value = newValue, after the key's
\* handleInputKeyDown, which hides the Tab completions as well
handleInputChange(u, newValue) ==
  LET typed == [u EXCEPT !.currentInput = newValue, !.lastChange = newValue]
      shown == IF u.showCompletions
               THEN [typed EXCEPT !.showCompletions = FALSE, !.completionResult = null]
               ELSE typed
  IN handleLiveSuggestions(shown, newValue)

\* handleCompletionSelect(completion, index)
handleCompletionSelect(u, completion) ==
  LET activeResult == IF u.showCompletions THEN u.completionResult
                      ELSE u.liveSuggestionResult
  IN IF activeResult = null THEN u
     ELSE hidden([u EXCEPT !.currentInput =
                              replaced(activeResult.originalInput, activeResult, completion)])

\* the continuation of handleTabCompletion after getCompletions resolved;
\* currentInput is the input of the render in which Tab was pressed
tabCompletionResolved(u, currentInput, result) ==
  IF Len(result.completions) = 0 THEN [u EXCEPT !.showCompletions = FALSE]
  ELSE IF Len(result.completions) = 1
  THEN [u EXCEPT !.currentInput = replaced(currentInput, result, result.completions[1]),
                 !.showCompletions = FALSE]
  ELSE LET currentArgLength ==
             Len(SubSeq(currentInput, result.replaceStart + 1, result.replaceEnd))
           extended ==
             IF Len(result.commonPrefix) > currentArgLength
             THEN [u EXCEPT !.currentInput =
                              replaced(currentInput, result, result.commonPrefix)]
             ELSE u
       IN [extended EXCEPT !.completionResult = result,
                           !.selectedCompletionIndex = 0,
                           !.showCompletions = TRUE]

\* the continuation of the timer's callback after getCompletions resolved
liveSuggestionsResolved(u, result) ==
  IF Len(result.completions) > 0
  THEN [u EXCEPT !.liveSuggestionResult = result, !.showLiveSuggestions = TRUE]
  ELSE [u EXCEPT !.showLiveSuggestions = FALSE, !.liveSuggestionResult = null]

\* the list Enter and the arrow keys act on
activeCompletions(u) ==
  IF u.showCompletions THEN u.completionResult
  ELSE IF u.showLiveSuggestions THEN u.liveSuggestionResult
  ELSE null

removeAt(s, i) == SubSeq(s, 1, i - 1) \o SubSeq(s, i + 1, Len(s))

UiStep(next) ==
  /\ ui' = next
  /\ UNCHANGED <<nodes, currentWorkingDirectory, blobs, persisted, last, calls, stack,
                 resolutions, before, seen, initialized, loads, made, returned,
                 commands, handled, theme, history>>

\* a change event of the input element
InputChange ==
  \E newValue \in UiInputs :
    /\ newValue # ui.currentInput
    /\ UiStep(handleInputChange(ui, newValue))

\* handleInputKeyDown, Tab and Shift+Tab
TabKey ==
  \E shiftKey \in BOOLEAN :
    IF ui.showCompletions /\ ui.completionResult # null
    THEN IF shiftKey
         THEN UiStep([ui EXCEPT !.selectedCompletionIndex =
                                  IF ui.selectedCompletionIndex > 0
                                  THEN ui.selectedCompletionIndex - 1
                                  ELSE Len(ui.completionResult.completions) - 1])
         ELSE IF ui.selectedCompletionIndex < Len(ui.completionResult.completions) - 1
         THEN UiStep([ui EXCEPT !.selectedCompletionIndex = ui.selectedCompletionIndex + 1])
         ELSE UiStep(handleCompletionSelect(ui,
                       elementAt(ui.completionResult.completions,
                                 ui.selectedCompletionIndex)))
    ELSE /\ Len(ui.requests) < MaxRequests
         /\ UiStep([ui EXCEPT !.requests =
                       Append(ui.requests,
                              [kind |-> "tab", input |-> ui.currentInput,
                               cursorPosition |-> Len(ui.currentInput)])])

\* handleInputKeyDown, Enter while a list is shown (without a list Enter
\* executes the command line)
EnterKey ==
  /\ ui.showCompletions \/ ui.showLiveSuggestions
  /\ activeCompletions(ui) # null
  /\ UiStep(handleCompletionSelect(ui, elementAt(activeCompletions(ui).completions,
                                                 ui.selectedCompletionIndex)))

\* handleInputKeyDown, ArrowUp and ArrowDown: the selection moves in the
\* active list; without a list the key walks the empty command history
ArrowKey ==
  \E key \in {"ArrowUp", "ArrowDown"} :
    IF (ui.showCompletions \/ ui.showLiveSuggestions) /\ activeCompletions(ui) # null
    THEN LET length == Len(activeCompletions(ui).completions)
         IN UiStep([ui EXCEPT !.selectedCompletionIndex =
                      IF key = "ArrowUp"
                      THEN IF ui.selectedCompletionIndex > 0
                           THEN ui.selectedCompletionIndex - 1 ELSE length - 1
                      ELSE IF ui.selectedCompletionIndex < length - 1
                           THEN ui.selectedCompletionIndex + 1 ELSE 0])
    ELSE UiStep(ui)

\* handleInputKeyDown, Escape
EscapeKey ==
  IF ui.showCompletions \/ ui.showLiveSuggestions THEN UiStep(hidden(ui))
  ELSE UiStep(ui)

\* a pending timer expires: its callback reads the caret and calls
\* getCompletions with the input the timer was set for
TimerExpires ==
  \E timer \in ui.timers :
    /\ Len(ui.requests) < MaxRequests
    /\ UiStep([ui EXCEPT
         !.timers = ui.timers \ {timer},
         !.fired = [input |-> timer.input, lastChange |-> ui.lastChange],
         !.requests =
           Append(ui.requests,
                  [kind |-> "live", input |-> timer.input,
                   cursorPosition |-> IF Len(ui.currentInput) # 0 THEN Len(ui.currentInput)
                                      ELSE Len(timer.input)])])

\* a getCompletions call resolves, while the history and suggestion services
\* stay silent, and its caller continues
RequestResolves ==
  \E i \in DOMAIN ui.requests :
    \E request \in {ui.requests[i]} :
      \E completions \in {getCompletions(request.input, request.cursorPosition,
                                         Env(<<>>, <<>>, {})).completions} :
        \E result \in {completionResultOf(request.input, request.cursorPosition,
                                          completions)} :
          \E rest \in {[ui EXCEPT !.requests = removeAt(ui.requests, i)]} :
            IF request.kind = "tab"
            THEN UiStep(tabCompletionResolved(rest, request.input, result))
            ELSE UiStep(liveSuggestionsResolved(rest, result))

NextUi ==
  \/ InputChange
  \/ TabKey
  \/ EnterKey
  \/ ArrowKey
  \/ EscapeKey
  \/ TimerExpires
  \/ RequestResolves

SpecUi == InitTerminal /\ [][NextUi]_vars

(***************************************************************************)
(* Overlapping calls of two callers on the same paths: writeFile on the    *)
(* existing welcome.txt, and createFile and createDirectory on paths that  *)
(* do not exist yet.  None of these calls holds a node across an await     *)
(* that another of them replaces: writeFile holds the node of welcome.txt, *)
(* which no call here creates or removes.                                  *)
(***************************************************************************)
RaceWriteFile ==
  \E t \in Tasks, content \in WriteContentArgs :
    Start(t, Frame("writeFile", WELCOME_REL, <<>>, content, FALSE, FALSE))

RaceCreateFile ==
  \E t \in Tasks, path \in {NOTES, NOTES_A} :
    Start(t, Frame("createFile", path, <<>>, "yy", FALSE, FALSE))

RaceCreateDirectory ==
  \E t \in Tasks, recursive \in BOOLEAN :
    Start(t, Frame("createDirectory", NOTES_A, <<>>, "", recursive, FALSE))

NextRace ==
  \/ RaceWriteFile
  \/ RaceCreateFile
  \/ RaceCreateDirectory
  \/ Resume

SpecRace == Init /\ [][NextRace]_vars

(***************************************************************************)
(* Start-up.  The service is constructed with state = null and             *)
(* initialized = false; the store is empty or holds the state a previous   *)
(* session saved.  Every public operation begins with                      *)
(* `await this.ensureInitialized()`, so the first calls of two callers may  *)
(* both be inside initialize.  The operations called here capture no node  *)
(* across an await.                                                        *)
(***************************************************************************)
InitBoot ==
  /\ nodes = NoState.nodes
  /\ currentWorkingDirectory = NoState.currentWorkingDirectory
  /\ persisted \in {NoState, createDefaultFileSystem}
  /\ blobs = IF persisted = NoState THEN <<>> ELSE [i \in {0} |-> welcomeContent]
  /\ last = NoCall
  /\ calls = 0
  /\ stack = [t \in Tasks |-> <<>>]
  /\ resolutions = [t \in Tasks |-> {}]
  /\ before = NoState.nodes
  /\ seen = {}
  /\ initialized = FALSE
  /\ loads = 0
  /\ made = {}
  /\ returned = NoValue
  /\ commands = NoCommands
  /\ handled = 0
  /\ theme = initialState
  /\ history = <<>>
  /\ ui = initialUi

\* task t calls the function of frame, which awaits ensureInitialized first
Boot(t, frame) ==
  /\ stack[t] = <<>>
  /\ calls < MaxAsyncCalls
  /\ calls' = calls + 1
  /\ Step(t, <<frame, Frame("ensureInitialized", <<>>, <<>>, "", FALSE, FALSE)>>, {}, TRUE)

BootChangeDirectory ==
  \E path \in {TMP, HOME} :
    Boot("cd", Frame("changeDirectory", path, <<>>, "", FALSE, FALSE))

BootCreateDirectory ==
  Boot("op", Frame("createDirectory", <<"/", "tmp", "/", "notes">>, <<>>, "", FALSE, FALSE))

BootCreateFile ==
  Boot("op", Frame("createFile", <<"/", "tmp", "/", "a.txt">>, <<>>, "x", FALSE, FALSE))

NextInit ==
  \/ BootChangeDirectory
  \/ BootCreateDirectory
  \/ BootCreateFile
  \/ Resume

SpecInit == InitBoot /\ [][NextInit]_vars

(***************************************************************************)
(* Properties                                                              *)
(***************************************************************************)
\* p lies strictly below the directory path d
IsUnder(p, d) ==
  IF d = ROOT THEN p # ROOT /\ isAbsolute(p)
  ELSE Len(p) > Len(d) + 1 /\ SubSeq(p, 1, Len(d)) = d /\ p[Len(d) + 1] = SEPARATOR

\* the sum of the size fields of the file nodes of ns
RECURSIVE SumOver(_, _)
SumOver(ns, paths) ==
  IF paths = {} THEN 0
  ELSE LET p == CHOOSE q \in paths : TRUE
       IN ns[p].size + SumOver(ns, paths \ {p})
SumFileSizes(ns) == SumOver(ns, {p \in DOMAIN ns : ns[p].type = "file"})

IsDirectory(ns, p) == p \in DOMAIN ns /\ ns[p].type = "directory"
IsFile(ns, p) == p \in DOMAIN ns /\ ns[p].type = "file"

\* C1: a successful delete(path, recursive = true) of a directory removes
\* the directory, every node below it, and the content blob of every file
\* below it.
C1_RecursiveDeleteRemovesSubtree ==
  [][(/\ last'.op = "delete" /\ last'.flag /\ last'.err = OK
      /\ IsDirectory(nodes, resolvePath(FS, last'.path)))
     => LET target == resolvePath(FS, last'.path)
        IN /\ target \notin DOMAIN nodes'
           /\ \A p \in DOMAIN nodes : IsUnder(p, target) =>
                /\ p \notin DOMAIN nodes'
                /\ "contentId" \in DOMAIN nodes[p] => nodes[p].contentId \notin DOMAIN blobs']_vars

\* C2: every node but the root has a parent that is an existing directory;
\* every name in a directory's children is an existing node whose parent is
\* that directory and whose path is the normalized join of parent and name.
C2_TreeWellFormed ==
  /\ \A p \in DOMAIN nodes : p # ROOT => IsDirectory(nodes, nodes[p].parent)
  /\ \A d \in DOMAIN nodes : "children" \in DOMAIN nodes[d] =>
       \A i \in 1..Len(nodes[d].children) :
         LET c == join(d, ToPath(nodes[d].children[i]))
         IN /\ c \in DOMAIN nodes
            /\ nodes[c].parent = d
            /\ nodes[c].path = join(nodes[c].parent, ToPath(nodes[c].name))

\* C3: nodes['/'] exists, is a directory and has no parent.
C3_RootIsDirectory ==
  /\ ROOT \in DOMAIN nodes
  /\ nodes[ROOT].type = "directory"
  /\ nodes[ROOT].parent = <<>>

\* C4: the working directory is an absolute path of an existing directory.
C4_CwdIsDirectory ==
  /\ isAbsolute(currentWorkingDirectory)
  /\ IsDirectory(nodes, currentWorkingDirectory)

\* C5: when writeFile(p, c) returns, readFile(p) returns c; when
\* writeFile(p, c, append) returns, readFile(p) returns what it returned
\* before the call followed by c (c alone when p named no file).  Hence
\* write c1, append c2, read yields c1 + c2.
C5_WriteThenRead ==
  [][(last'.op = "writeFile" /\ last'.err = OK)
     => LET target == resolvePath(FS, last'.path)
            old == IF last'.flag /\ IsFile(nodes, target)
                   THEN readFile(FS, last'.path).out ELSE ""
        IN /\ readFile(FS', last'.path).err = OK
           /\ readFile(FS', last'.path).out = old \o last'.content]_vars

\* a file was written and then appended to, and holds both contents
C5_Witness ==
  /\ last.op = "writeFile" /\ last.flag /\ last.err = OK
  /\ last.path = NOTES /\ last.content = "x"
  /\ readFile(FS, NOTES).out = "xx"

CanCreate(target, force) ==
  /\ validatePath(target) = OK
  /\ target \notin DOMAIN nodes \/ force
  /\ IsDirectory(nodes, dirname(target))
SizeAt(target) == IF IsFile(nodes, target) THEN nodes[target].size ELSE 0
NewTotal(target, content) == SumFileSizes(nodes) - SizeAt(target) + Len(content)

\* the call made in this step is a write: createFile, writeFile, or copy
\* of a file
IsWriteStep ==
  \/ last'.op \in {"createFile", "writeFile"}
  \/ last'.op = "copy" /\ IsFile(nodes, resolvePath(FS, last'.path))

\* the write made in this step would leave the file sizes above the ceiling
WouldExceed ==
  LET target == resolvePath(FS, last'.path)
      dest == resolvePath(FS, last'.dest)
  IN \/ /\ last'.op = "createFile"
        /\ NewTotal(target, last'.content) > MAX_TOTAL_SIZE
        /\ CanCreate(target, last'.flag)
     \/ /\ last'.op = "writeFile"
        /\ IsFile(nodes, target)
        /\ NewTotal(target, (IF last'.flag THEN readFile(FS, last'.path).out ELSE "")
                              \o last'.content) > MAX_TOTAL_SIZE
     \/ /\ last'.op = "writeFile"
        /\ target \notin DOMAIN nodes
        /\ NewTotal(target, last'.content) > MAX_TOTAL_SIZE
        /\ CanCreate(target, FALSE)
     \/ /\ last'.op = "copy"
        /\ IsFile(nodes, target)
        /\ NewTotal(dest, readFile(FS, last'.path).out) > MAX_TOTAL_SIZE
        /\ CanCreate(dest, last'.flag2)

\* C7: a createFile, a writeFile or a copy of a file that would leave the
\* sum of the file sizes above MAX_TOTAL_SIZE throws ENOSPC; a write that
\* throws ENOSPC has changed neither nodes nor any content blob; a write
\* that returns leaves the sum within MAX_TOTAL_SIZE.
C7_QuotaEnforced ==
  [][last'.op \in {"createFile", "writeFile", "copy"} =>
       /\ last'.err # ENOSPC => ~WouldExceed
       /\ (last'.err = ENOSPC /\ IsWriteStep) => (nodes' = nodes /\ blobs' = blobs)
       /\ (last'.err = OK /\ IsWriteStep) => SumFileSizes(nodes') <= MAX_TOTAL_SIZE]_vars

\* a write has been refused for lack of space
C7_Witness ==
  /\ last.op \in {"createFile", "writeFile", "copy"}
  /\ last.err = ENOSPC
  /\ SumFileSizes(nodes) = MAX_TOTAL_SIZE

\* C8: getStats().storageUsed is the sum of the size fields of the file
\* nodes.
C8_StorageUsedIsSumOfSizes ==
  getStats(FS).storageUsed = SumFileSizes(nodes)

\* a file was created or written, another deleted, and files with content
\* remain beside directories
C8_Witness ==
  /\ last.op = "delete" /\ last.err = OK
  /\ getStats(FS).totalFiles >= 1
  /\ getStats(FS).totalDirectories >= 1
  /\ getStats(FS).storageUsed >= 2

\* C9: within one call every resolution of the same path argument gives
\* the same absolute path, whatever changeDirectory does at the call's
\* awaits: the operation's resolutions map each argument to one path.
C9_ResolvedOnce ==
  \A s, t \in resolutions["op"] : s[1] = t[1] => s[2] = t[2]

\* C10: the nodes another caller could see at an await of an operation are
\* the nodes before the operation or the nodes after it.
C10_NoPartialState ==
  stack["op"] = <<>> => \A s \in seen : s = before \/ s = nodes

(***************************************************************************)
(* C11  initialize() is idempotent: whatever calls overlap, the state is   *)
(* loaded or seeded at most once, and a path created by a call that has    *)
(* returned stays in the in-memory nodes (no operation here deletes).      *)
(***************************************************************************)
C11_InitializeOnce ==
  /\ loads <= 1
  /\ \A p \in made : p \in DOMAIN nodes

(***************************************************************************)
(* C12  When the copy phase of move(source, dest) fails, the source node,  *)
(* every node below it and the content of each of them are as they were    *)
(* before the call: none added, none removed, none changed.                *)
(***************************************************************************)
\* the node at p and the content it refers to, or "absent"
Snapshot(ns, bs, p) ==
  IF p \notin DOMAIN ns THEN [present |-> FALSE]
  ELSE [present |-> TRUE, node |-> ns[p],
        content |-> IF "contentId" \in DOMAIN ns[p] /\ ns[p].contentId \in DOMAIN bs
                    THEN bs[ns[p].contentId] ELSE ""]

C12_MoveCopyFailureKeepsSource ==
  [][(/\ last'.op = "move"
      /\ copy(FS, last'.path, last'.dest,
              [recursive |-> TRUE, force |-> TRUE, preserveTimestamps |-> FALSE]).err # OK)
     => LET source == resolvePath(FS, last'.path)
        IN \A p \in DOMAIN nodes \cup DOMAIN nodes' :
             (p = source \/ IsUnder(p, source))
               => Snapshot(nodes', blobs', p) = Snapshot(nodes, blobs, p)]_vars

(***************************************************************************)
(* C13  copy(source, dest, options) of an existing file, or of an existing *)
(* directory with recursive, onto a destination path that exists throws    *)
(* EEXIST if and only if options.force is not set.                         *)
(***************************************************************************)
C13_CopyOntoExisting ==
  [][(/\ last'.op = "copy"
      /\ resolvePath(FS, last'.dest) \in DOMAIN nodes
      /\ \/ IsFile(nodes, resolvePath(FS, last'.path))
         \/ IsDirectory(nodes, resolvePath(FS, last'.path)) /\ last'.flag)
     => (last'.err = EEXIST <=> ~last'.flag2)]_vars

(***************************************************************************)
(* C14  A caller that writes to a value a read operation returned (the     *)
(* node of stat, its children list, a node of listDirectory) does not      *)
(* change the engine's nodes.                                              *)
(***************************************************************************)
C14_StateNotExposed ==
  [][last'.op = "mutateReturned" => nodes' = nodes]_vars

(***************************************************************************)
(* C19  In the list listDirectory returns, whatever sortBy and reverse     *)
(* are, every directory precedes every file; two entries of the same type  *)
(* are in the order of the sortBy key, ascending unless reverse is set;    *)
(* an entry whose name starts with '.' is listed only with showHidden.     *)
(***************************************************************************)
\* the key order of two listed nodes of the same type: negative, zero or
\* positive as a comes before, with or after b in ascending order
KeyOrder(a, b, sortBy) ==
  IF sortBy = "size" THEN a.size - b.size
  ELSE IF sortBy = "date" THEN a.modifiedAt - b.modifiedAt
  ELSE IF sortBy = "type"
       THEN ExtensionRank(IF "extension" \in DOMAIN a THEN a.extension ELSE "")
            - ExtensionRank(IF "extension" \in DOMAIN b THEN b.extension ELSE "")
  ELSE Rank(a.name) - Rank(b.name)

C19_ListingOrder ==
  (last.op = "listDirectory" /\ last.err = OK)
    => LET listed == [i \in 1..Len(last.out) |-> nodes[last.out[i]]]
       IN /\ \A i, j \in 1..Len(listed) :
               i < j => ~(listed[i].type = "file" /\ listed[j].type = "directory")
          /\ \A i, j \in 1..Len(listed) :
               (i < j /\ listed[i].type = listed[j].type)
                 => IF last.flag
                    THEN KeyOrder(listed[i], listed[j], last.content) >= 0
                    ELSE KeyOrder(listed[i], listed[j], last.content) <= 0
          /\ \A i \in 1..Len(listed) : startsWithDot(listed[i].name) => last.flag2

(***************************************************************************)
(* C15  When a mutating operation (changeDirectory, createDirectory,       *)
(* createFile, writeFile, delete, copy with or without preserveTimestamps, *)
(* move) has returned, the FileSystemState kept in the store equals the    *)
(* state in memory.                                                        *)
(***************************************************************************)
C15_WriteThrough ==
  [][(/\ last'.op \in {"changeDirectory", "createDirectory", "createFile", "writeFile",
                       "delete", "copy", "move"}
      /\ last'.err = OK)
     => persisted' = [nodes |-> nodes',
                      currentWorkingDirectory |-> currentWorkingDirectory']]_vars

\* a copy with preserveTimestamps made as the second call has returned: the
\* copy carries the time stamp of its source, not the time of the call
C15_Witness ==
  /\ last.op = "copy" /\ last.flag3 /\ last.err = OK
  /\ calls = 2
  /\ IsFile(nodes, resolvePath(FS, last.dest))
  /\ nodes[resolvePath(FS, last.dest)].modifiedAt = 0
  /\ persisted = [nodes |-> nodes, currentWorkingDirectory |-> currentWorkingDirectory]

(***************************************************************************)
(* C16  For every absolute path p, with any mix of names, '.', '..' and    *)
(* repeated or trailing separators, normalize(normalize(p)) is             *)
(* normalize(p).                                                           *)
(***************************************************************************)
C16_NormalizeIdempotent ==
  (last.op = "normalizeAgain" /\ isAbsolute(last.out)) => last.dest = last.path

\* an absolute path with a name, two later '..' and a trailing separator
\* has been normalized twice
C16_Witness ==
  /\ last.op = "normalizeAgain"
  /\ isAbsolute(last.out)
  /\ \E i, j, k \in 1..Len(last.out) :
       /\ i < j /\ j < k
       /\ last.out[i] = "a" /\ last.out[j] = ".." /\ last.out[k] = ".."
  /\ IsSeparatorToken(last.out[Len(last.out)])

\* C17: for every absolute argument, normalize, resolve and resolvePath return
\* a path that starts with the separator and has no '..' segment; resolve
\* from an absolute directory and resolvePath do so for every argument.
C17_NeverAboveRoot ==
  (\/ last.op \in {"normalize", "normalizeAgain"} /\ isAbsolute(last.path)
   \/ last.op \in {"resolve", "resolvePath"})
  => /\ last.dest # <<>>
     /\ last.dest[1] = SEPARATOR
     /\ \A i \in 1..Len(last.dest) : last.dest[i] # ".."

\* resolvePath was given an absolute path whose '..' segments outnumber the
\* names before them
C17_Witness ==
  /\ last.op = "resolvePath"
  /\ Len(last.path) >= 6
  /\ last.path[1] = SEPARATOR /\ last.path[2] = "a"
  /\ last.path[4] = ".." /\ last.path[6] = ".."
  /\ last.dest = ROOT

\* The number of segments that remain when the segments of a path are
\* collapsed from left to right: names kept so far, and for a relative path
\* the '..' kept below them.
RECURSIVE Remaining(_, _, _, _)
Remaining(tokens, abs, ups, depth) ==
  IF tokens = <<>> THEN ups + depth
  ELSE LET t == Head(tokens)
       IN IF IsSeparatorToken(t) \/ t = "." THEN Remaining(Tail(tokens), abs, ups, depth)
          ELSE IF t # ".." THEN Remaining(Tail(tokens), abs, ups, depth + 1)
          ELSE IF depth > 0 THEN Remaining(Tail(tokens), abs, ups, depth - 1)
          ELSE IF abs THEN Remaining(Tail(tokens), abs, ups, depth)
          ELSE Remaining(Tail(tokens), abs, ups + 1, depth)

\* C18: normalize returns '/' for an absolute argument with no remaining
\* segment and '.' for a relative argument with no remaining segment, the
\* empty string included.
C18_EmptyResult ==
  (last.op = "normalize"
   /\ Remaining(last.path, last.path # <<>> /\ IsSeparatorToken(last.path[1]), 0, 0) = 0)
  => last.dest = IF last.path # <<>> /\ IsSeparatorToken(last.path[1])
                 THEN ROOT ELSE <<".">>

\* the name is the name or an alias of a registered command, compared as
\* the registry compares them
IsRegistered(cmds, name) ==
  \E key \in DOMAIN cmds :
    /\ cmds[key] # undefined
    /\ toLowerCase(name) \in
         {toLowerCase(cmds[key].name)} \cup
         {toLowerCase(cmds[key].aliases[i]) : i \in 1..Len(cmds[key].aliases)}

\* C20: executeCommand with a name that is not a registered command name or
\* alias returns an error outcome whose output says "Command not found" and
\* invokes no handler.
C20_UnknownCommand ==
  [][(last'.op = "executeCommand" /\ ~IsRegistered(commands, last'.path[1]))
     => /\ returned'.value.type = "error"
        /\ returned'.value.output # <<>>
        /\ returned'.value.output[1] = "Command not found: "
        /\ handled' = handled]_vars

\* C21: executeCommand never rejects: it resolves to an outcome of type
\* success, error or info, and when the handler throws or returns a promise
\* that rejects, the outcome has type error and the error's text in its
\* output.
C21_NeverRejects ==
  [][last'.op = "executeCommand"
     => /\ returned'.value.type \in {"success", "error", "info"}
        /\ (/\ handled' # handled
            /\ last'.content \in {"throws", "rejects"}
            /\ getCommand(commands, last'.path[1]).name \in {"help", "clear"})
           => /\ returned'.value.type = "error"
              /\ \E k \in 1..Len(returned'.value.output) :
                   returned'.value.output[k] =
                     IF last'.content = "throws" THEN "Error: failed" ELSE "Error: rejected"]_vars

\* a registered command whose handler returned a promise that rejects has
\* been executed with a token
C21_Witness ==
  /\ last.op = "executeCommand"
  /\ last.path = <<"HELP">> /\ last.dest = <<"x">> /\ last.content = "rejects"
  /\ IsRegistered(commands, "HELP")
  /\ handled = 1
  /\ returned.value.type = "error"

\* C22: `theme set X`, X naming no preset and no custom theme, returns an
\* outcome of type error whose output names X as not found, and leaves the
\* name of the active theme as it was.
C22_ThemeSetUnknown ==
  [][(/\ last'.op = "executeCommand"
      /\ getCommand(commands, last'.path[1]) = themeCommand
      /\ Len(last'.dest) = 2 /\ last'.dest[1] = "set"
      /\ last'.dest[2] \notin presetThemes \cup theme.customThemes)
     => /\ returned'.value.type = "error"
        /\ Len(returned'.value.output) >= 2
        /\ returned'.value.output[1] = "Theme not found: "
        /\ returned'.value.output[2] = last'.dest[2]
        /\ theme'.currentThemeName = theme.currentThemeName]_vars

\* The required entries without an input token, the i-th entry of a
\* definition standing against the i-th token and the nested definition of
\* a matched subcommand against the tokens after it.
RECURSIVE Missing(_, _)
Missing(args, definition) ==
  {definition[i].name :
     i \in {k \in 1..Len(definition) : definition[k].required /\ k > Len(args)}}
  \cup UNION {UNION {Missing(SubSeq(args, i + 1, Len(args)), definition[i].nested[n].nested) :
                       n \in {k \in 1..Len(definition[i].nested) :
                                definition[i].nested[k].name = args[i]}} :
                i \in {k \in 1..Len(definition) : k <= Len(args)}}

\* C23: when a required entry has no input token, parse fails with a
\* message that names the entry, and executeCommand of the same tokens
\* returns an error outcome with that message and invokes no handler.
C23_MissingRequired ==
  /\ (last.op = "parse" /\ Missing(last.path, DefinitionOf(last)) # {})
     => /\ ~returned.value.success
        /\ \E name \in Missing(last.path, DefinitionOf(last)) :
             returned.value.error = <<"Missing required argument: ", name>>
  /\ \A command \in DOMAIN Definitions :
       (/\ last.op = "executeCommand" /\ last.path = <<command.name>>
        /\ Missing(last.dest, command.args) # {})
       => /\ handled = 0
          /\ returned.value.type = "error"
          /\ \E name \in Missing(last.dest, command.args) :
               SubSeq(returned.value.output, 1, 2) = <<"Missing required argument: ", name>>

\* `theme set` without a theme name has been executed
C23_Witness ==
  /\ last.op = "executeCommand"
  /\ last.path = <<"theme">> /\ last.dest = <<"set">>
  /\ returned.value.type = "error"
  /\ handled = 0

\* C24: when the token of an optional entry (plain or with nested
\* subcommands) is absent, parse succeeds, and the result maps the entry's
\* name to its default when it declares one and has no key for it otherwise.
C24_OptionalDefaults ==
  last.op = "parse" =>
    LET definition == DefinitionOf(last)
        result == returned.value
    IN /\ (last.path = <<>> /\ \A i \in 1..Len(definition) : ~definition[i].required)
          => result.success
       /\ result.success =>
            \A i \in 1..Len(definition) :
              (~definition[i].required /\ i > Len(last.path)) =>
                IF definition[i].default # null
                THEN /\ definition[i].name \in DOMAIN result.args
                     /\ result.args[definition[i].name] = definition[i].default
                ELSE definition[i].name \notin DOMAIN result.args

\* C25: for an entry with nested subcommands, a token that is the name of
\* no subcommand makes parse fail with a message that lists the subcommand
\* names; a token that is one is stored under the entry's name as that one
\* name, and the subcommand's nested definition is parsed against the tokens
\* after it and its results merged, however many tokens follow.
C25_NestedSubcommands ==
  (last.op = "parse" /\ last.content = "theme" /\ last.path # <<>>) =>
    LET argDef == themeCommand.args[1]
        token == last.path[1]
        names == {argDef.nested[k].name : k \in 1..Len(argDef.nested)}
        result == returned.value
    IN IF token \notin names
       THEN /\ ~result.success
            /\ \A name \in names : \E k \in 1..Len(result.error) : result.error[k] = name
       ELSE result.success =>
              /\ result.args[argDef.name] = StringValue(<<token>>)
              /\ token = "set" => result.args["themeName"] = StringValue(<<last.path[2]>>)

\* C26: on the seeded file system (cwd /home/user, holding welcome.txt),
\* after `mkdir notes`, `cd notes`, `touch a.txt`, the line `ls` shows the
\* single entry a.txt, and `pwd` after it shows /home/user/notes.
C26_TerminalScenario ==
  LET scenario == <<(<<"mkdir", "notes">>), (<<"cd", "notes">>), (<<"touch", "a.txt">>),
                    (<<"ls">>), (<<"pwd">>)>>
  IN /\ history = SubSeq(scenario, 1, 4)
        => /\ returned.value.type = "success"
           /\ returned.value.output = <<"a.txt">>
     /\ history = scenario
        => /\ returned.value.type = "success"
           /\ returned.value.output = <<"/", "home", "/", "user", "/", "notes">>
           /\ currentWorkingDirectory = <<"/", "home", "/", "user", "/", "notes">>

\* the five lines have been executed in this order
C26_Witness ==
  /\ history = <<(<<"mkdir", "notes">>), (<<"cd", "notes">>), (<<"touch", "a.txt">>),
                 (<<"ls">>), (<<"pwd">>)>>
  /\ <<"/", "home", "/", "user", "/", "notes", "/", "a.txt">> \in DOMAIN nodes

\* the request whose result returned holds: what each registered provider
\* offers in it, a provider that cannot complete or whose getCompletions
\* fails offering nothing
Requested == last.op = "getCompletions" /\ returned.kind = "completions"
RequestEnv == Env(returned.domains, returned.google, returned.failing)
Offer(i) ==
  LET provider == completionProviders[i]
      context == returned.value.context
  IN IF canComplete(provider, context, RequestEnv) /\ provider.name \notin returned.failing
     THEN providerCompletions(provider, context, RequestEnv)
     ELSE <<>>
Offers(i, value) == \E k \in DOMAIN Offer(i) : Offer(i)[k] = value

\* provider i comes before provider j: higher priority, or equal priority
\* and registered earlier
Before(i, j) ==
  \/ completionProviders[i].priority > completionProviders[j].priority
  \/ /\ completionProviders[i].priority = completionProviders[j].priority
     /\ i < j

\* the first of the providers offering value, and the value's first
\* position in what a provider offers or in a list
Owner(value) ==
  CHOOSE i \in DOMAIN completionProviders :
    /\ Offers(i, value)
    /\ \A j \in DOMAIN completionProviders : Offers(j, value) => (j = i \/ Before(i, j))
FirstIndex(list, value) ==
  CHOOSE k \in DOMAIN list : list[k] = value /\ \A h \in 1..(k - 1) : list[h] # value

\* C27: the merged list holds exactly the values the applicable providers
\* offer, each once; values of different providers are in descending
\* priority order, registration order within equal priority, a value offered
\* by several providers counting for the first of them; values of one
\* provider are in the order the provider gave them.
C27_MergeOrder ==
  Requested =>
    LET merged == returned.value.merged
    IN /\ ~returned.value.rejected
       /\ {merged[k] : k \in DOMAIN merged}
            = UNION {{Offer(i)[k] : k \in DOMAIN Offer(i)} : i \in DOMAIN completionProviders}
       /\ \A k, h \in DOMAIN merged : merged[k] = merged[h] => k = h
       /\ \A k, h \in DOMAIN merged :
            k < h =>
              LET i == Owner(merged[k])
                  j == Owner(merged[h])
              IN \/ Before(i, j)
                 \/ i = j /\ FirstIndex(Offer(i), merged[k]) < FirstIndex(Offer(i), merged[h])

\* a request in which two providers of different priority offer one value
\* and the merged list holds several values
C27_Witness ==
  /\ Requested
  /\ Len(returned.value.merged) > 1
  /\ \E i, j \in DOMAIN completionProviders :
       /\ completionProviders[i].priority > completionProviders[j].priority
       /\ \E k \in DOMAIN Offer(i) : Offers(j, Offer(i)[k])

\* C28: when the Google suggestion provider and another provider both
\* contribute to a request, every completion that only the Google provider
\* contributes comes after every completion of the other providers in the
\* merged list.
C28_GoogleLast ==
  Requested =>
    LET merged == returned.value.merged
        google == CHOOSE i \in DOMAIN completionProviders :
                    completionProviders[i] = googleSuggestionsProvider
        others == DOMAIN completionProviders \ {google}
    IN \A k, h \in DOMAIN merged :
         (/\ Offers(google, merged[k])
          /\ \A i \in others : ~Offers(i, merged[k])
          /\ \E i \in others : Offers(i, merged[h]))
         => h < k

\* C29: a provider whose getCompletions throws or rejects contributes
\* nothing and the request still resolves, with the merged list it would
\* have if the failing provider were not registered.
C29_FailureIsolated ==
  Requested =>
    LET registered == SelectSeq(completionProviders,
                                LAMBDA provider : provider.name \notin returned.failing)
        without == getCompletionsFromProviders(registered, returned.value.context,
                                               Env(returned.domains, returned.google, {}))
    IN /\ ~returned.value.rejected
       /\ returned.value.merged = without.completions
       /\ \A k \in DOMAIN returned.value.entries :
            returned.value.entries[k].provider \notin returned.failing

\* a request in which an applicable provider failed and another provider
\* contributed
C29_Witness ==
  /\ Requested
  /\ \E i \in DOMAIN completionProviders :
       /\ completionProviders[i].name \in returned.failing
       /\ canComplete(completionProviders[i], returned.value.context, RequestEnv)
  /\ Len(returned.value.merged) > 0

\* C30: for the empty input with the cursor at 0 the position is a command
\* position and only the command name provider contributes: the result is
\* the sorted names and aliases of the registered commands.
C30_EmptyInput ==
  (Requested /\ last.content = "" /\ returned.value.cursorPosition = 0) =>
    LET result == returned.value
        names == <<"?", "cd", "clear", "cls", "dir", "help", "ls", "mkdir", "pwd",
                   "theme", "touch">>
    IN /\ result.context.isCommandPosition
       /\ ~result.rejected
       /\ \A k \in DOMAIN result.entries : result.entries[k].provider = "commands"
       /\ "commands" \notin returned.failing
          => /\ result.entries = <<[provider |-> "commands", completions |-> names]>>
             /\ result.completions = names

\* the empty input has been completed, the working directory holding
\* entries the file provider would offer
C30_Witness ==
  /\ Requested
  /\ last.content = ""
  /\ returned.failing = {}
  /\ Len(returned.value.completions) = 11
  /\ Len(providerCompletions(fileCompletionProvider, returned.value.context, RequestEnv)) > 1

\* C31: a value a provider offers because it contains the current argument
\* without starting with it is among the completions getCompletions returns.
C31_PartialMatches ==
  Requested =>
    LET result == returned.value
        typed == toLowerCase(result.context.currentArg)
    IN \A k \in DOMAIN result.merged :
         (/\ includes(toLowerCase(result.merged[k]), typed)
          /\ ~startsWithText(toLowerCase(result.merged[k]), typed))
         => \E h \in DOMAIN result.completions : result.completions[h] = result.merged[k]

\* the call is one of the single-step operations and threw one of the error
\* codes its checks throw
FailedSingleStep(call) ==
  \/ call.op = "changeDirectory" /\ call.err \in {ENOENT, ENOTDIR}
  \/ call.op \in {"createDirectory", "createFile"}
       /\ call.err \in {EEXIST, ENOENT, ENOTDIR, EINVAL}
  \/ call.op \in {"readFile", "writeFile"} /\ call.err \in {ENOENT, EISDIR}
  \/ call.op = "delete" /\ ~call.flag /\ call.err \in {ENOENT, ENOTEMPTY}

C36_BlobsMatchFiles ==
  /\ \A id \in DOMAIN blobs :
       Cardinality({p \in DOMAIN nodes :
                      /\ nodes[p].type = "file"
                      /\ "contentId" \in DOMAIN nodes[p]
                      /\ nodes[p].contentId = id}) = 1
  /\ \A p \in DOMAIN nodes :
       nodes[p].type = "file"
         => "contentId" \in DOMAIN nodes[p] /\ nodes[p].contentId \in DOMAIN blobs

\* C37: when move(source, dest) of a file returns, dest is a file whose
\* content is the content source had before the call, whatever the two
\* paths are.
C37_MoveKeepsContent ==
  [][LET source == resolvePath(FS, last'.path)
         dest == resolvePath(FS, last'.dest)
     IN (last'.op = "move" /\ last'.err = OK /\ IsFile(nodes, source))
        => /\ IsFile(nodes', dest)
           /\ Snapshot(nodes', blobs', dest).content = Snapshot(nodes, blobs, source).content]_vars

\* the paths of ns at or below root
Subtree(ns, root) == {p \in DOMAIN ns : p = root \/ IsUnder(p, root)}

\* C38: a recursive copy of a directory leaves the nodes at and below source
\* and their contents as they were, and when it returns the nodes below dest
\* are those that were below source, with the same names, types and
\* contents; also when dest lies inside source.
C38_RecursiveCopy ==
  [][LET source == resolvePath(FS, last'.path)
         dest == resolvePath(FS, last'.dest)
         Moved(p) == dest \o SubSeq(p, Len(source) + 1, Len(p))
     IN (last'.op = "copy" /\ last'.flag /\ IsDirectory(nodes, source))
        => /\ \A p \in Subtree(nodes, source) \cup Subtree(nodes', source) :
                Snapshot(nodes', blobs', p) = Snapshot(nodes, blobs, p)
           /\ last'.err = OK
                => /\ Subtree(nodes', dest) = {Moved(p) : p \in Subtree(nodes, source)}
                   /\ \A p \in Subtree(nodes, source) :
                        /\ nodes'[Moved(p)].type = nodes[p].type
                        /\ p # source => nodes'[Moved(p)].name = nodes[p].name
                        /\ Snapshot(nodes', blobs', Moved(p)).content
                             = Snapshot(nodes, blobs, p).content]_vars

\* no call is in progress
Quiescent == \A t \in Tasks : stack[t] = <<>>

\* C33: when the writeFile calls on welcome.txt have completed, overlapping
\* or not, the stored content of the file is the content one of them wrote
\* and the node's size is the length of that content.
C33_LastWriterWins ==
  (Quiescent /\ last.op = "writeFile" /\ last.err = OK) =>
    LET stored == Snapshot(nodes, blobs, WELCOME)
    IN /\ stored.present
       /\ stored.content \in WriteContentArgs
       /\ stored.node.size = Len(stored.content)

\* C34: the children of every directory are sorted and hold each name at
\* most once, in every state, whatever calls overlap.
C34_ChildrenSortedUnique ==
  \A p \in DOMAIN nodes :
    "children" \in DOMAIN nodes[p] =>
      \A i, j \in DOMAIN nodes[p].children :
        i < j => Rank(nodes[p].children[i]) < Rank(nodes[p].children[j])

\* C39: the sum of the sizes of the file nodes is at most MAX_TOTAL_SIZE in
\* every state, whatever calls overlap.
C39_QuotaUnderOverlap == SumFileSizes(nodes) <= MAX_TOTAL_SIZE

\* C35: at most one debounce timer is pending, and a timer that expires was
\* set for the input value of the most recent change of the input.
C35_Debounced ==
  /\ Cardinality(ui.timers) <= 1
  /\ ui.fired # null => ui.fired.input = ui.fired.lastChange

\* C40: while a completion list is visible, the selected index is an index
\* into the list Enter selects from (the Tab completions when they are
\* shown, otherwise the live suggestions).
C40_SelectedIndexValid ==
  ((ui.showCompletions \/ ui.showLiveSuggestions) /\ activeCompletions(ui) # null) =>
    ui.selectedCompletionIndex < Len(activeCompletions(ui).completions)

====
